---- MODULE Spec2Model ----
(***************************************************************************)
(* The aggregator of gizatechxyz/avsthon (src/aggregator): startup, the    *)
(* task listener, the HTTP handlers, and the three pipeline stages         *)
(* (ingestion, consensus, finalization) connected by bounded channels.     *)
(* The operator (src/operator): its event listener and its task processor, *)
(* connected by the bounded work queue.                                    *)
(***************************************************************************)
EXTENDS Integers, Sequences, FiniteSets, TLC

(***************************************************************************)
(* Bounds of the model.                                                    *)
(***************************************************************************)
\* Number of submissions the server accepts in one behaviour.
MaxSubmissions == 2

\* Number of log items the log stream of one container yields.
MaxLogs == 4

\* Number of task events the operator's stream yields in one behaviour: one
\* more than the work queue holds.
MaxEvents == 101

(***************************************************************************)
(* Values.                                                                 *)
(***************************************************************************)
\* mpsc::channel(100) for each of the three channels.
CHANNEL_CAPACITY == 100

\* const QUEUE_CAPACITY: usize = 100 of the operator.
QUEUE_CAPACITY == 100

\* Task ids (FixedBytes<32>) the ledger announces.
TaskIds == {"t1", "t2"}

\* Accounts registered on the ledger (OperatorRegistered events).
Operators == {"op1", "op2"}

\* An account that holds a key but never registered as an operator.
Outsider == "outsider"

Signers == Operators \cup {Outsider}

\* The address ECDSA recovery yields when the message is not the one that
\* was signed: the address of a key nobody holds, so never a registered one.
UnrelatedAddress == "unrelated"

\* Result texts, as sequences of characters.
Texts == { <<"4", "2">>, <<" ", "4", "2">>, <<"4", "3">>, <<"4", "x">> }

\* TaskStatus of contract-bindings.
EMPTY == "EMPTY"
PENDING == "PENDING"
COMPLETED == "COMPLETED"
FAILED == "FAILED"
TaskStatus == {EMPTY, PENDING, COMPLETED, FAILED}

\* A signature is either malformed or made by a signer over a message.
MalformedSignature == [signer |-> "none", msg |-> <<>>]
Sign(signer, msg) == [signer |-> signer, msg |-> msg]
Signatures == {Sign(s, m) : s \in Signers, m \in Texts} \cup {MalformedSignature}

\* OperatorResponse: the body of POST /submit_task.
OperatorResponse == [task_id : TaskIds, result : Texts, signature : Signatures]

RecoverError == "recover_error"

\* HTTP status codes of ServerError::into_response, and StatusCode::OK.
OK == 200
BAD_REQUEST == 400
FORBIDDEN == 403
NOT_FOUND == 404
CONFLICT == 409
INTERNAL_SERVER_ERROR == 500

\* Result of a fallible conversion.
Ok(v) == [ok |-> TRUE, val |-> v]
Err == [ok |-> FALSE, val |-> 0]

VARIABLES
    phase,                  \* position of Aggregator::run
    operator_list,          \* Aggregator.operator_list
    tasks,                  \* Aggregator.tasks: the Task Directory
    operator_responses,     \* Aggregator.operator_responses: the accumulator
    rx_response,            \* channel server -> ingestion
    rx_aggregated_response, \* channel ingestion -> consensus
    rx_task_process,        \* channel consensus -> finalization
    task_result,            \* the TaskResult process_completed_tasks is sending
    listener,               \* listen_for_task: "subscribing", "listening"
                            \* or "stopped"
    ingestion,              \* queue_operator_response: "running" or "exited"
    consensus,              \* process_completed_tasks: "running" or "panicked"
    finalization,           \* send_task_result: "running" or "exited"
    ledger_txs,             \* respondToTask transactions sent, in order
    submissions,            \* number of submissions accepted so far
    forwarded,              \* history: snapshots forwarded, per task
    finalized,              \* history: tasks the directory has held as terminal
    verdicts,               \* history: TaskResults computed, with their snapshot
    announced,              \* history: task ids the ledger has announced
    operator_run,           \* position of Operator::run
    is_operator_registered, \* the last isOperatorRegistered answer read
    operator_txs,           \* history: transactions the operator has sent
    event_listener,         \* listen_for_events: "listening", "sending", "returned"
    task_processor,         \* process_tasks: "running", "panicked", "returned"
    stream_count,           \* events the stream has yielded as Ok so far
    event,                  \* the event listen_for_events is sending
    rx,                     \* the operator's work queue
    dequeued,               \* history: events process_tasks has received
    processing,             \* position of process_tasks within one iteration
    containers,             \* the tasks whose container exists
    run_image,              \* position of DockerClient::run_image
    docker_calls,           \* history: the Docker calls of run_image
    output,                 \* the String run_image collects the logs in
    test_container          \* whether the container named "test" exists

vars == <<phase, operator_list, tasks, operator_responses, rx_response,
          rx_aggregated_response, rx_task_process, task_result, listener,
          ingestion, consensus, finalization, ledger_txs, submissions,
          forwarded, finalized, verdicts, announced, operator_run,
          is_operator_registered, operator_txs, event_listener,
          task_processor, stream_count, event, rx, dequeued, processing,
          containers, run_image, docker_calls, output, test_container>>

run_image_vars == <<run_image, docker_calls, output, test_container>>

docker_vars == <<processing, containers, run_image_vars>>

operator_vars == <<operator_run, is_operator_registered, operator_txs,
                   event_listener, task_processor, stream_count, event, rx,
                   dequeued, docker_vars>>

aggregator_vars == <<phase, operator_list, tasks, operator_responses,
                     rx_response, rx_aggregated_response, rx_task_process,
                     task_result, listener, ingestion, consensus,
                     finalization, ledger_txs, submissions, forwarded,
                     finalized, verdicts, announced>>

(***************************************************************************)
(* Maps (DashMap): functions on the set of their keys.                     *)
(***************************************************************************)
EmptyMap == [k \in {} |-> 0]

Keys(m) == DOMAIN m

Len_(m) == Cardinality(DOMAIN m)

\* DashMap::insert: adds the key or overwrites its value.
Insert(m, k, v) == [x \in (DOMAIN m) \cup {k} |-> IF x = k THEN v ELSE m[x]]

(***************************************************************************)
(* Text conversions of process_completed_tasks: str::trim and the parse    *)
(* of a decimal U256.                                                      *)
(***************************************************************************)
IsWhitespace(c) == c = " "

RECURSIVE TrimStart(_)
TrimStart(s) ==
    IF s # <<>> /\ IsWhitespace(Head(s)) THEN TrimStart(Tail(s)) ELSE s

RECURSIVE TrimEnd(_)
TrimEnd(s) ==
    IF s # <<>> /\ IsWhitespace(s[Len(s)])
    THEN TrimEnd(SubSeq(s, 1, Len(s) - 1))
    ELSE s

trim(s) == TrimEnd(TrimStart(s))

Digits == {"0", "1", "2", "3", "4", "5", "6", "7", "8", "9"}

DigitValue(c) ==
    CASE c = "0" -> 0 [] c = "1" -> 1 [] c = "2" -> 2 [] c = "3" -> 3
      [] c = "4" -> 4 [] c = "5" -> 5 [] c = "6" -> 6 [] c = "7" -> 7
      [] c = "8" -> 8 [] c = "9" -> 9

RECURSIVE DecimalValue(_)
DecimalValue(s) ==
    IF s = <<>> THEN 0
    ELSE 10 * DecimalValue(SubSeq(s, 1, Len(s) - 1)) + DigitValue(s[Len(s)])

\* Faulty variant: unwrap_or_default in place of the error, so a text that
\* is not a number counts as zero.
parse_OrDefault(s) ==
    IF s # <<>> /\ \A i \in 1..Len(s) : s[i] \in Digits
    THEN Ok(DecimalValue(s))
    ELSE Ok(0)

\* str::parse::<U256>() on a non-empty decimal text: an error on any
\* character that is not a digit. The texts of the model are far below 2^256.
parse(s) ==
    IF s # <<>> /\ \A i \in 1..Len(s) : s[i] \in Digits
    THEN Ok(DecimalValue(s))
    ELSE Err

(***************************************************************************)
(* Signature::recover_address_from_msg: the signer when the message is the *)
(* signed one, another address when it is not, an error when the signature *)
(* is malformed.                                                           *)
(***************************************************************************)
\* Faulty variant: the recovery does not bind the message, so any text
\* submitted with a signature recovers to the signer.
recover_address_ignoring_msg(signature, msg) ==
    IF signature = MalformedSignature THEN RecoverError
    ELSE signature.signer

recover_address_from_msg(signature, msg) ==
    IF signature = MalformedSignature THEN RecoverError
    ELSE IF signature.msg = msg THEN signature.signer
    ELSE UnrelatedAddress

(***************************************************************************)
(* Initial state: Aggregator::new has built empty maps; run has not begun. *)
(***************************************************************************)
Init ==
    /\ phase = "new"
    /\ operator_list = {}
    /\ tasks = EmptyMap
    /\ operator_responses = EmptyMap
    /\ rx_response = <<>>
    /\ rx_aggregated_response = <<>>
    /\ rx_task_process = <<>>
    /\ task_result = <<>>
    /\ listener = "stopped"
    /\ ingestion = "stopped"
    /\ consensus = "stopped"
    /\ finalization = "stopped"
    /\ ledger_txs = <<>>
    /\ submissions = 0
    /\ forwarded = [t \in TaskIds |-> 0]
    /\ finalized = {}
    /\ verdicts = <<>>
    /\ announced = {}
    /\ operator_run = "new"
    /\ is_operator_registered = <<>>
    /\ operator_txs = <<>>
    /\ event_listener = "idle"
    /\ task_processor = "idle"
    /\ stream_count = 0
    /\ event = <<>>
    /\ rx = <<>>
    /\ dequeued = <<>>
    /\ processing = "idle"
    /\ containers = {}
    /\ run_image = "idle"
    /\ docker_calls = <<>>
    /\ output = <<>>
    /\ test_container = FALSE

(***************************************************************************)
(* Aggregator::run: the two startup fetches, then the spawns.              *)
(***************************************************************************)
\* impl From<u8> for TaskStatus.
TaskStatusFromU8(value) ==
    CASE value = 0 -> EMPTY
      [] value = 1 -> PENDING
      [] value = 2 -> COMPLETED
      [] value = 3 -> FAILED
      [] OTHER -> EMPTY

\* What the ledger holds when the history is queried: the task ids announced
\* so far, each with the u8 status the registry stores for it.
LedgerHistories ==
    UNION { [S -> 0..4] : S \in SUBSET TaskIds }

\* What fetch_operator_list can return: the accounts of the ledger's
\* OperatorRegistered events that the AVS directory holds as registered. The
\* accounts differ in name only, so one membership of each size stands for all.
Memberships == { {}, {"op1"}, {"op1", "op2"} }

\* fetch_task_history: one entry per task of the history.
fetch_task_history(history) ==
    [t \in DOMAIN history |-> TaskStatusFromU8(history[t])]

\* run, both fetches succeeding: operator list and directory are filled and
\* the listener, the three stages and the server start. The listener has
\* its subscription still to make.
run ==
    /\ phase = "new"
    /\ \E fetched_operators \in Memberships, history \in LedgerHistories :
          /\ operator_list' = fetched_operators
          /\ tasks' = fetch_task_history(history)
          /\ finalized' = { t \in DOMAIN history :
                              TaskStatusFromU8(history[t]) \in {COMPLETED, FAILED} }
          /\ announced' = DOMAIN history
    /\ phase' = "serving"
    /\ listener' = "subscribing"
    /\ ingestion' = "running"
    /\ consensus' = "running"
    /\ finalization' = "running"
    /\ UNCHANGED <<operator_responses, rx_response, rx_aggregated_response,
                   rx_task_process, task_result, ledger_txs, submissions,
                   forwarded, verdicts>>
    /\ UNCHANGED operator_vars

\* run, a fetch failing: the error is returned before anything is spawned.
run_fetch_error ==
    /\ phase = "new"
    /\ phase' = "failed"
    /\ UNCHANGED <<operator_list, tasks, operator_responses, rx_response,
                   rx_aggregated_response, rx_task_process, listener,
                   ingestion, consensus, finalization, ledger_txs,
                   submissions, forwarded, verdicts,
                   finalized, task_result>>
    /\ UNCHANGED <<announced, operator_vars>>

(***************************************************************************)
(* listen_for_task: every event of the stream sets its task to PENDING.    *)
(***************************************************************************)
\* The ledger announces a task while no subscription of the aggregator is
\* active: the event reaches no stream.
TaskRequested(task_id) ==
    /\ phase = "serving"
    /\ listener # "listening"
    /\ task_id \notin announced
    /\ announced' = announced \cup {task_id}
    /\ UNCHANGED <<phase, operator_list, tasks, operator_responses,
                   rx_response, rx_aggregated_response, rx_task_process,
                   listener, ingestion, consensus, finalization, ledger_txs,
                   submissions, forwarded, verdicts, finalized, task_result>>
    /\ UNCHANGED operator_vars

\* TaskRequested_filter().subscribe() succeeds: the stream yields the
\* events announced from now on.
listen_for_task_subscribe ==
    /\ listener = "subscribing"
    /\ listener' = "listening"
    /\ UNCHANGED <<phase, operator_list, tasks, operator_responses,
                   rx_response, rx_aggregated_response, rx_task_process,
                   ingestion, consensus, finalization, ledger_txs,
                   submissions, forwarded, verdicts,
                   finalized, task_result>>
    /\ UNCHANGED <<announced, operator_vars>>

\* The ledger announces a task and the stream yields its event.
listen_for_task(task_id) ==
    /\ listener = "listening"
    /\ tasks' = Insert(tasks, task_id, PENDING)
    /\ announced' = announced \cup {task_id}
    /\ UNCHANGED <<phase, operator_list, operator_responses, rx_response,
                   rx_aggregated_response, rx_task_process, listener,
                   ingestion, consensus, finalization, ledger_txs,
                   submissions, forwarded, verdicts,
                   finalized, task_result>>
    /\ UNCHANGED operator_vars

\* The subscription fails or the stream ends: the listener task returns.
listen_for_task_end ==
    /\ listener \in {"subscribing", "listening"}
    /\ listener' = "stopped"
    /\ UNCHANGED <<phase, operator_list, tasks, operator_responses,
                   rx_response, rx_aggregated_response, rx_task_process,
                   ingestion, consensus, finalization, ledger_txs,
                   submissions, forwarded, verdicts,
                   finalized, task_result>>
    /\ UNCHANGED <<announced, operator_vars>>

(***************************************************************************)
(* The HTTP handlers of server.rs.                                         *)
(***************************************************************************)
\* Faulty variant: the membership test lets every recovered address pass.
IsOperator_Anyone(address, operators) == TRUE

\* The membership test of handle_submit_task.
IsOperator(address, operators) == address \in operators

\* Faulty variant: only COMPLETED counts as terminal, FAILED passes.
TaskStatusCheck_FailedPasses(directory, task_id) ==
    IF task_id \notin DOMAIN directory THEN NOT_FOUND
    ELSE IF directory[task_id] = EMPTY THEN NOT_FOUND
    ELSE IF directory[task_id] = COMPLETED THEN CONFLICT
    ELSE OK

\* Faulty variant: the None arm falls through, so an id the directory does
\* not hold passes.
TaskStatusCheck_UnknownPasses(directory, task_id) ==
    IF task_id \notin DOMAIN directory THEN OK
    ELSE IF directory[task_id] = EMPTY THEN NOT_FOUND
    ELSE IF directory[task_id] = COMPLETED \/ directory[task_id] = FAILED
         THEN CONFLICT
    ELSE OK

\* The match on the stored status of handle_submit_task: the error it
\* returns, or OK when the claim may go on to the channel.
TaskStatusCheck(directory, task_id) ==
    IF task_id \notin DOMAIN directory THEN NOT_FOUND
    ELSE IF directory[task_id] = EMPTY THEN NOT_FOUND
    ELSE IF directory[task_id] = COMPLETED \/ directory[task_id] = FAILED
         THEN CONFLICT
    ELSE OK

\* Faulty variant: the signature and membership checks are skipped.
SubmitChecks_TaskOnly(operator_response, operators, directory) ==
    TaskStatusCheck(directory, operator_response.task_id)

\* Faulty variant: the stored status is matched before the signature and
\* the membership are checked.
SubmitChecks_TaskFirst(operator_response, operators, directory) ==
    LET recover_address ==
            recover_address_from_msg(operator_response.signature,
                                     operator_response.result)
        status_check == TaskStatusCheck(directory, operator_response.task_id)
    IN  IF status_check # OK THEN status_check
        ELSE IF recover_address = RecoverError THEN BAD_REQUEST
        ELSE IF ~IsOperator(recover_address, operators) THEN FORBIDDEN
        ELSE OK

\* Faulty variant: a (result, signature) pair the accumulator holds for one
\* task is refused for every other task.
SubmitChecks_OneTaskPerSignature(operator_response, operators, directory) ==
    LET recover_address ==
            recover_address_from_msg(operator_response.signature,
                                     operator_response.result)
    IN  IF recover_address = RecoverError THEN BAD_REQUEST
        ELSE IF ~IsOperator(recover_address, operators) THEN FORBIDDEN
        ELSE IF \E t \in DOMAIN operator_responses :
                   /\ t # operator_response.task_id
                   /\ \E a \in DOMAIN operator_responses[t] :
                         /\ operator_responses[t][a].result
                                = operator_response.result
                         /\ operator_responses[t][a].signature
                                = operator_response.signature
             THEN CONFLICT
        ELSE TaskStatusCheck(directory, operator_response.task_id)

\* Faulty variant: a signature whose recovery fails is let through to the
\* directory lookup.
SubmitChecks_RecoveryErrorPasses(operator_response, operators, directory) ==
    LET recover_address ==
            recover_address_from_msg(operator_response.signature,
                                     operator_response.result)
    IN  IF recover_address = RecoverError
        THEN TaskStatusCheck(directory, operator_response.task_id)
        ELSE IF ~IsOperator(recover_address, operators) THEN FORBIDDEN
        ELSE TaskStatusCheck(directory, operator_response.task_id)

\* The checks of handle_submit_task, in order, before the send.
SubmitChecks(operator_response, operators, directory) ==
    LET recover_address ==
            recover_address_from_msg(operator_response.signature,
                                     operator_response.result)
    IN  IF recover_address = RecoverError THEN BAD_REQUEST
        ELSE IF ~IsOperator(recover_address, operators) THEN FORBIDDEN
        ELSE TaskStatusCheck(directory, operator_response.task_id)

\* The Result handle_submit_task returns, as its HTTP status code: the first
\* failing check, else the error of a send whose receiver is gone, else OK.
SubmitResponse(operator_response, operators, directory, receiver) ==
    LET checks == SubmitChecks(operator_response, operators, directory)
    IN  IF checks # OK THEN checks
        ELSE IF receiver # "running" THEN INTERNAL_SERVER_ERROR
        ELSE OK

\* Faulty variant: an address recovered from a well-formed signature is
\* enrolled in the membership set by its first submission.
handle_submit_task_Enrolls(operator_response) ==
    /\ phase = "serving"
    /\ submissions < MaxSubmissions
    /\ LET recover_address ==
               recover_address_from_msg(operator_response.signature,
                                        operator_response.result)
           enrolled == IF recover_address = RecoverError THEN operator_list
                       ELSE operator_list \cup {recover_address}
       IN  /\ operator_list' = enrolled
           /\ IF SubmitResponse(operator_response, enrolled, tasks,
                                ingestion) = OK
              THEN /\ Len(rx_response) < CHANNEL_CAPACITY
                   /\ rx_response' = Append(rx_response, operator_response)
                   /\ submissions' = submissions + 1
              ELSE UNCHANGED <<rx_response, submissions>>
    /\ UNCHANGED <<phase, tasks, operator_responses,
                   rx_aggregated_response, rx_task_process, listener,
                   ingestion, consensus, finalization, ledger_txs, forwarded,
                   verdicts, finalized, task_result>>
    /\ UNCHANGED <<announced, operator_vars>>

\* POST /submit_task. The send waits while the channel is full.
handle_submit_task(operator_response) ==
    /\ phase = "serving"
    /\ submissions < MaxSubmissions
    /\ IF SubmitResponse(operator_response, operator_list, tasks, ingestion) = OK
       THEN /\ Len(rx_response) < CHANNEL_CAPACITY
            /\ rx_response' = Append(rx_response, operator_response)
            /\ submissions' = submissions + 1
       ELSE UNCHANGED <<rx_response, submissions>>
    /\ UNCHANGED <<phase, operator_list, tasks, operator_responses,
                   rx_aggregated_response, rx_task_process, listener,
                   ingestion, consensus, finalization, ledger_txs, forwarded,
                   verdicts,
                   finalized, task_result>>
    /\ UNCHANGED <<announced, operator_vars>>

\* Faulty variant: an unknown id is reported as PENDING.
TaskStatusResponse_UnknownPending(directory, task_id) ==
    IF task_id \in DOMAIN directory THEN directory[task_id] ELSE PENDING

\* GET /task_status/:task_id: the stored status, EMPTY for an unknown id.
TaskStatusResponse(directory, task_id) ==
    IF task_id \in DOMAIN directory THEN directory[task_id] ELSE EMPTY

\* Faulty variant: the lookup goes through entry().or_insert(EMPTY), which
\* creates the entry of an unknown id.
handle_task_status_InsertsEmpty(task_id) ==
    /\ phase = "serving"
    /\ tasks' = IF task_id \in DOMAIN tasks THEN tasks
                ELSE Insert(tasks, task_id, EMPTY)
    /\ UNCHANGED <<phase, operator_list, operator_responses,
                   rx_response, rx_aggregated_response, rx_task_process,
                   listener, ingestion, consensus, finalization, ledger_txs,
                   submissions, forwarded, verdicts,
                   finalized, task_result>>
    /\ UNCHANGED <<announced, operator_vars>>

handle_task_status(task_id) ==
    /\ phase = "serving"
    /\ UNCHANGED <<phase, operator_list, tasks, operator_responses,
                   rx_response, rx_aggregated_response, rx_task_process,
                   listener, ingestion, consensus, finalization, ledger_txs,
                   submissions, forwarded, verdicts,
                   finalized, task_result>>
    /\ UNCHANGED <<announced, operator_vars>>

(***************************************************************************)
(* Stage A, queue_operator_response: one iteration of its loop.            *)
(***************************************************************************)
\* Faulty variant: an operator's first claim for a task is kept, later ones
\* are dropped.
AccumulatorInsert_KeepFirst(responses, task_id, operator_address, response) ==
    LET entry == IF task_id \in DOMAIN responses THEN responses[task_id]
                 ELSE EmptyMap
    IN  IF operator_address \in DOMAIN entry
        THEN responses
        ELSE Insert(responses, task_id, Insert(entry, operator_address, response))

\* operator_responses.entry(task_id).or_insert_with(DashMap::new)
\*     .insert(operator_address, response)
AccumulatorInsert(responses, task_id, operator_address, response) ==
    LET entry == IF task_id \in DOMAIN responses THEN responses[task_id]
                 ELSE EmptyMap
    IN  Insert(responses, task_id, Insert(entry, operator_address, response))

\* Faulty variant: the count is compared one short of the membership size.
IsComplete_OneShort(entry, operator_length) == Len_(entry) >= operator_length - 1

\* Faulty variant: the first claim of a task completes its entry.
IsComplete_FirstClaim(entry, operator_length) == Len_(entry) >= 1

\* operator_responses.get(&task_id).unwrap().len() == operator_length
IsComplete(entry, operator_length) == Len_(entry) = operator_length

AggregatedResponse(task_id, responses) ==
    [task_id |-> task_id, responses |-> responses]

queue_operator_response ==
    /\ ingestion = "running"
    /\ rx_response # <<>>
    /\ LET response == Head(rx_response)
           operator_address ==
               recover_address_from_msg(response.signature, response.result)
           inserted == AccumulatorInsert(operator_responses, response.task_id,
                                         operator_address, response)
       IN  IF operator_address = RecoverError
           THEN \* the `?` returns the SignatureError: the stage is gone
                /\ ingestion' = "exited"
                /\ rx_response' = <<>>
                /\ UNCHANGED <<operator_responses, rx_aggregated_response,
                               forwarded>>
           ELSE /\ rx_response' = Tail(rx_response)
                /\ operator_responses' = inserted
                /\ UNCHANGED ingestion
                /\ IF IsComplete(inserted[response.task_id],
                                 Cardinality(operator_list))
                   THEN IF consensus = "running"
                        THEN /\ Len(rx_aggregated_response) < CHANNEL_CAPACITY
                             /\ rx_aggregated_response' =
                                    Append(rx_aggregated_response,
                                           AggregatedResponse(response.task_id,
                                               inserted[response.task_id]))
                             /\ forwarded' = [forwarded EXCEPT
                                    ![response.task_id] = @ + 1]
                        ELSE \* receiver dropped: the send error is logged
                             UNCHANGED <<rx_aggregated_response, forwarded>>
                   ELSE UNCHANGED <<rx_aggregated_response, forwarded>>
    /\ UNCHANGED <<phase, operator_list, tasks, rx_task_process, listener,
                   consensus, finalization, ledger_txs, submissions,
                   verdicts,
                   finalized, task_result>>
    /\ UNCHANGED <<announced, operator_vars>>

(***************************************************************************)
(* Stage B, process_completed_tasks: one iteration of its loop.            *)
(***************************************************************************)
\* The orders in which a DashMap may iterate over its entries.
IterationOrders(m) ==
    { order \in [1..Len_(m) -> DOMAIN m] :
        \A i, j \in 1..Len_(m) : i # j => order[i] # order[j] }

\* .map(|entry| entry.value().result.trim().to_string()) and then
\* .map(|result| result.parse()), before the unwrap.
ExtractResults(responses, order) ==
    [i \in 1..Len(order) |-> parse(trim(responses[order[i]].result))]

\* Faulty variant: `any` in place of `all`, which the first value satisfies.
ConsensusOf_Any(extracted_result) ==
    IF \E i \in 1..Len(extracted_result) :
           extracted_result[i] = extracted_result[1]
    THEN [status |-> COMPLETED, result |-> extracted_result[1]]
    ELSE [status |-> FAILED, result |-> 0]

\* The (task_status, consensus_result) pair computed from the parsed values;
\* extracted_result is not empty.
ConsensusOf(extracted_result) ==
    IF \A i \in 1..Len(extracted_result) :
           extracted_result[i] = extracted_result[1]
    THEN [status |-> COMPLETED, result |-> extracted_result[1]]
    ELSE [status |-> FAILED, result |-> 0]

TaskResult(task_id, status, result) ==
    [task_id |-> task_id, status |-> status, result |-> result]

\* rx.recv(), the parse and the comparison: the TaskResult is built and its
\* send begins.
process_completed_tasks ==
    /\ consensus = "running"
    /\ task_result = <<>>
    /\ rx_aggregated_response # <<>>
    /\ LET aggregated_response == Head(rx_aggregated_response)
           task_id == aggregated_response.task_id
       IN  \E order \in IterationOrders(aggregated_response.responses) :
           LET parsed == ExtractResults(aggregated_response.responses, order)
           IN  IF parsed = <<>> \/ \E i \in 1..Len(parsed) : ~parsed[i].ok
               THEN \* unwrap of a parse error, or extracted_result[0] of an
                    \* empty vector: the stage panics and drops its channels
                    /\ consensus' = "panicked"
                    /\ rx_aggregated_response' = <<>>
                    /\ UNCHANGED <<task_result, verdicts>>
               ELSE LET extracted_result ==
                            [i \in 1..Len(parsed) |-> parsed[i].val]
                        verdict == ConsensusOf(extracted_result)
                    IN  /\ rx_aggregated_response' = Tail(rx_aggregated_response)
                        /\ UNCHANGED consensus
                        /\ task_result' = <<TaskResult(task_id, verdict.status,
                                                       verdict.result)>>
                        /\ verdicts' = Append(verdicts,
                               [task_id |-> task_id,
                                responses |-> aggregated_response.responses,
                                status |-> verdict.status,
                                result |-> verdict.result])
    /\ UNCHANGED <<phase, operator_list, tasks, operator_responses,
                   rx_response, rx_task_process, listener, ingestion,
                   finalization, ledger_txs, submissions, forwarded,
                   finalized>>
    /\ UNCHANGED <<announced, operator_vars>>

\* Faulty variant: a TaskResult that finds the channel full is dropped.
process_completed_tasks_send_DropWhenFull ==
    /\ consensus = "running"
    /\ task_result # <<>>
    /\ IF finalization = "running" /\ Len(rx_task_process) < CHANNEL_CAPACITY
       THEN rx_task_process' = Append(rx_task_process, Head(task_result))
       ELSE UNCHANGED rx_task_process
    /\ tasks' = Insert(tasks, Head(task_result).task_id,
                       Head(task_result).status)
    /\ finalized' = finalized \cup {Head(task_result).task_id}
    /\ task_result' = <<>>
    /\ UNCHANGED <<phase, operator_list, operator_responses, rx_response,
                   rx_aggregated_response, listener, ingestion, consensus,
                   finalization, ledger_txs, submissions, forwarded,
                   verdicts>>
    /\ UNCHANGED <<announced, operator_vars>>

\* Faulty variant: a failed send ends the iteration before tasks.insert.
process_completed_tasks_send_ReturnOnError ==
    /\ consensus = "running"
    /\ task_result # <<>>
    /\ IF finalization = "running"
       THEN /\ Len(rx_task_process) < CHANNEL_CAPACITY
            /\ rx_task_process' = Append(rx_task_process, Head(task_result))
            /\ tasks' = Insert(tasks, Head(task_result).task_id,
                               Head(task_result).status)
            /\ finalized' = finalized \cup {Head(task_result).task_id}
       ELSE UNCHANGED <<rx_task_process, tasks, finalized>>
    /\ task_result' = <<>>
    /\ UNCHANGED <<phase, operator_list, operator_responses, rx_response,
                   rx_aggregated_response, listener, ingestion, consensus,
                   finalization, ledger_txs, submissions, forwarded,
                   verdicts>>
    /\ UNCHANGED <<announced, operator_vars>>

\* tx_task_process.send(..).await, which waits while the channel is full and
\* fails once the receiver is gone, and then tasks.insert(task_id, status).
process_completed_tasks_send ==
    /\ consensus = "running"
    /\ task_result # <<>>
    /\ IF finalization = "running"
       THEN /\ Len(rx_task_process) < CHANNEL_CAPACITY
            /\ rx_task_process' = Append(rx_task_process, Head(task_result))
       ELSE \* receiver dropped: the send error is logged
            UNCHANGED rx_task_process
    /\ tasks' = Insert(tasks, Head(task_result).task_id,
                       Head(task_result).status)
    /\ finalized' = finalized \cup {Head(task_result).task_id}
    /\ task_result' = <<>>
    /\ UNCHANGED <<phase, operator_list, operator_responses, rx_response,
                   rx_aggregated_response, listener, ingestion, consensus,
                   finalization, ledger_txs, submissions, forwarded,
                   verdicts>>
    /\ UNCHANGED <<announced, operator_vars>>

(***************************************************************************)
(* Stage C, send_task_result: one iteration of its loop.                   *)
(***************************************************************************)
\* impl From<TaskStatus> for u8.
U8FromTaskStatus(status) ==
    CASE status = EMPTY -> 0
      [] status = PENDING -> 1
      [] status = COMPLETED -> 2
      [] status = FAILED -> 3

\* Faulty variant: the transaction carries the zero value whatever the verdict.
respondToTask_ZeroResult(result_) ==
    [task_id |-> result_.task_id,
     status |-> U8FromTaskStatus(result_.status),
     result |-> 0]

\* The call respondToTask(task_id, status.into(), result) of a TaskResult.
respondToTask(result_) ==
    [task_id |-> result_.task_id,
     status |-> U8FromTaskStatus(result_.status),
     result |-> result_.result]

\* What respondToTask(..).send().await?.watch().await? can come to.
TxOutcomes == {"confirmed", "send_error", "watch_error"}

\* rx.recv() and the transaction, for one outcome of the transaction. A send
\* error returns before anything is submitted; a watch error returns after
\* the transaction was submitted.
send_task_result_tx(outcome) ==
    /\ finalization = "running"
    /\ rx_task_process # <<>>
    /\ ledger_txs' = IF outcome = "send_error" THEN ledger_txs
                     ELSE Append(ledger_txs,
                                 respondToTask(Head(rx_task_process)))
    /\ IF outcome = "confirmed"
       THEN /\ rx_task_process' = Tail(rx_task_process)
            /\ UNCHANGED finalization
       ELSE \* the `?` returns the TxError: the stage and its receiver
            \* are gone
            /\ finalization' = "exited"
            /\ rx_task_process' = <<>>
    /\ UNCHANGED <<phase, operator_list, tasks, operator_responses,
                   rx_response, rx_aggregated_response, listener, ingestion,
                   consensus, submissions, forwarded, verdicts,
                   finalized, task_result>>
    /\ UNCHANGED <<announced, operator_vars>>

send_task_result == \E outcome \in TxOutcomes : send_task_result_tx(outcome)

\* rx.recv() returns None once the consensus stage is gone and the channel
\* is drained: the loop ends and the stage returns Ok.
send_task_result_end ==
    /\ finalization = "running"
    /\ consensus = "panicked"
    /\ rx_task_process = <<>>
    /\ finalization' = "exited"
    /\ UNCHANGED <<phase, operator_list, tasks, operator_responses,
                   rx_response, rx_aggregated_response, rx_task_process,
                   listener, ingestion, consensus, ledger_txs,
                   submissions, forwarded, verdicts,
                   finalized, task_result>>
    /\ UNCHANGED <<announced, operator_vars>>

Next ==
    \/ run
    \/ run_fetch_error
    \/ \E task_id \in TaskIds : listen_for_task(task_id)
    \/ listen_for_task_subscribe
    \/ listen_for_task_end
    \/ \E operator_response \in OperatorResponse :
          handle_submit_task(operator_response)
    \/ \E task_id \in TaskIds : handle_task_status(task_id)
    \/ queue_operator_response
    \/ process_completed_tasks
    \/ process_completed_tasks_send
    \/ send_task_result
    \/ send_task_result_end

Spec == Init /\ [][Next]_vars

\* The aggregator beside a ledger on which every transaction is confirmed,
\* under a scheduler that runs every stage that can take a step.
ConfirmingNext ==
    \/ run
    \/ run_fetch_error
    \/ \E task_id \in TaskIds : listen_for_task(task_id)
    \/ listen_for_task_subscribe
    \/ listen_for_task_end
    \/ \E operator_response \in OperatorResponse :
          handle_submit_task(operator_response)
    \/ \E task_id \in TaskIds : handle_task_status(task_id)
    \/ queue_operator_response
    \/ process_completed_tasks
    \/ process_completed_tasks_send
    \/ send_task_result_tx("confirmed")
    \/ send_task_result_end

\* The steps of the three stages beside that ledger.
ConfirmingStages ==
    \/ queue_operator_response
    \/ process_completed_tasks
    \/ process_completed_tasks_send
    \/ send_task_result_tx("confirmed")

FairConfirmingSpec ==
    /\ Init
    /\ [][ConfirmingNext]_vars
    /\ WF_vars(queue_operator_response)
    /\ WF_vars(process_completed_tasks)
    /\ WF_vars(process_completed_tasks_send)
    /\ WF_vars(send_task_result_tx("confirmed"))

\* The server and the listener beside a ledger that also announces tasks
\* while the listener has no subscription. The subscription succeeds and the
\* stream never ends, and the scheduler lets the listener subscribe.
LedgerNext ==
    \/ run
    \/ run_fetch_error
    \/ \E task_id \in TaskIds : TaskRequested(task_id)
    \/ \E task_id \in TaskIds : listen_for_task(task_id)
    \/ listen_for_task_subscribe
    \/ \E operator_response \in OperatorResponse :
          handle_submit_task(operator_response)
    \/ \E task_id \in TaskIds : handle_task_status(task_id)

FairLedgerSpec ==
    /\ Init
    /\ [][LedgerNext]_vars
    /\ WF_vars(listen_for_task_subscribe)

\* The server and the listener by themselves: the behaviours in which the
\* three stages have not been scheduled yet.
ServerNext ==
    \/ run
    \/ run_fetch_error
    \/ \E task_id \in TaskIds : listen_for_task(task_id)
    \/ listen_for_task_subscribe
    \/ listen_for_task_end
    \/ \E operator_response \in OperatorResponse :
          handle_submit_task(operator_response)
    \/ \E task_id \in TaskIds : handle_task_status(task_id)

ServerSpec == Init /\ [][ServerNext]_vars

(***************************************************************************)
(* The aggregator with a channel at its capacity. The one member op1 has   *)
(* submitted for t1 again and again while t1 was PENDING and the stage     *)
(* reading the channel was slow; the listener's stream has ended. Three    *)
(* such states, one per channel, start the behaviours.                     *)
(***************************************************************************)
Repeat(x, n) == [i \in 1..n |-> x]

SignedClaim(task_id, signer, text) ==
    [task_id |-> task_id, result |-> text, signature |-> Sign(signer, text)]

\* The claim channel is full. The first claim of op1, "4x", made the
\* consensus stage panic, so t1 stays PENDING and the server went on
\* accepting; the finalization stage has not yet seen its channel close.
ClaimsSaturated ==
    /\ tasks = [t \in {"t1"} |-> PENDING]
    /\ operator_responses =
           [t \in {"t1"} |-> [a \in {"op1"} |->
               SignedClaim("t1", "op1", <<"4", "x">>)]]
    /\ rx_response =
           Repeat(SignedClaim("t1", "op1", <<"4", "2">>), CHANNEL_CAPACITY)
    /\ rx_aggregated_response = <<>>
    /\ rx_task_process = <<>>
    /\ task_result = <<>>
    /\ consensus = "panicked"
    /\ finalization = "running"
    /\ forwarded = [t \in TaskIds |-> IF t = "t1" THEN 1 ELSE 0]
    /\ finalized = {}
    /\ verdicts = <<>>

\* The snapshot channel is full: every claim of op1 was ingested and
\* forwarded, none processed yet. The finalization stage is gone: the
\* transaction for t2, decided before, had failed.
SnapshotsSaturated ==
    LET claim == SignedClaim("t1", "op1", <<"4", "2">>)
        earlier == SignedClaim("t2", "op1", <<"4", "3">>)
    IN  /\ tasks = [t \in TaskIds |-> IF t = "t1" THEN PENDING ELSE COMPLETED]
        /\ operator_responses =
               [t \in TaskIds |-> [a \in {"op1"} |->
                   IF t = "t1" THEN claim ELSE earlier]]
        /\ rx_response = <<>>
        /\ rx_aggregated_response =
               Repeat(AggregatedResponse("t1", [a \in {"op1"} |-> claim]),
                      CHANNEL_CAPACITY)
        /\ rx_task_process = <<>>
        /\ task_result = <<>>
        /\ consensus = "running"
        /\ finalization = "exited"
        /\ forwarded = [t \in TaskIds |->
                           IF t = "t1" THEN CHANNEL_CAPACITY ELSE 1]
        /\ finalized = {"t2"}
        /\ verdicts = <<[task_id |-> "t2",
                         responses |-> [a \in {"op1"} |-> earlier],
                         status |-> COMPLETED, result |-> 43]>>

\* The verdict channel is full: every snapshot of t1 was processed and no
\* transaction has been sent yet. op1 has claimed for t2 since, and that
\* snapshot waits.
VerdictsSaturated ==
    LET claim == SignedClaim("t1", "op1", <<"4", "2">>)
        later == SignedClaim("t2", "op1", <<"4", "3">>)
    IN  /\ tasks = [t \in TaskIds |-> IF t = "t1" THEN COMPLETED ELSE PENDING]
        /\ operator_responses =
               [t \in TaskIds |-> [a \in {"op1"} |->
                   IF t = "t1" THEN claim ELSE later]]
        /\ rx_response = <<>>
        /\ rx_aggregated_response =
               <<AggregatedResponse("t2", [a \in {"op1"} |-> later])>>
        /\ rx_task_process =
               Repeat(TaskResult("t1", COMPLETED, 42), CHANNEL_CAPACITY)
        /\ task_result = <<>>
        /\ consensus = "running"
        /\ finalization = "running"
        /\ forwarded = [t \in TaskIds |->
                           IF t = "t1" THEN CHANNEL_CAPACITY ELSE 1]
        /\ finalized = {"t1"}
        /\ verdicts =
               Repeat([task_id |-> "t1",
                       responses |-> [a \in {"op1"} |-> claim],
                       status |-> COMPLETED, result |-> 42], CHANNEL_CAPACITY)

\* The bound on submissions leaves room for one more.
SaturatedInit ==
    /\ phase = "serving"
    /\ operator_list = {"op1"}
    /\ listener = "stopped"
    /\ ingestion = "running"
    /\ ledger_txs = <<>>
    /\ submissions = MaxSubmissions - 1
    /\ operator_run = "new"
    /\ is_operator_registered = <<>>
    /\ operator_txs = <<>>
    /\ event_listener = "idle"
    /\ task_processor = "idle"
    /\ stream_count = 0
    /\ event = <<>>
    /\ rx = <<>>
    /\ dequeued = <<>>
    /\ processing = "idle"
    /\ containers = {}
    /\ run_image = "idle"
    /\ docker_calls = <<>>
    /\ output = <<>>
    /\ test_container = FALSE
    /\ \/ ClaimsSaturated
       \/ SnapshotsSaturated
       \/ VerdictsSaturated
    /\ announced = DOMAIN tasks

SaturatedNext ==
    \/ \E operator_response \in OperatorResponse :
          handle_submit_task(operator_response)
    \/ \E task_id \in TaskIds : handle_task_status(task_id)
    \/ queue_operator_response
    \/ process_completed_tasks
    \/ process_completed_tasks_send
    \/ send_task_result
    \/ send_task_result_end

SaturatedSpec == SaturatedInit /\ [][SaturatedNext]_vars

\* The scheduler runs a send that can complete, and a transaction is
\* confirmed or fails in the end.
FairSaturatedSpec ==
    /\ SaturatedSpec
    /\ WF_vars(process_completed_tasks_send)
    /\ WF_vars(send_task_result)

(***************************************************************************)
(* The operator: Operator::run, listen_for_events, process_tasks and       *)
(* handle_tasks. Events are numbered in the order the stream yields them.  *)
(***************************************************************************)
\* The errors run returns: the one a failed call or a finished task hands
\* on, Err("Operator registration failed"), Err("Client app registration
\* failed").
RunErrors == {"error", "registration_failed", "client_app_failed"}

\* The positions of run at which the pending call can return an error that
\* the `?` hands on: the calls of register_operator_in_avs and of
\* fetch_client_app.
FallibleCalls ==
    {"new", "registering", "submitted", "app_check", "opting_in", "opted_in",
     "fetching"}

\* run: a call of register_operator_in_avs or of fetch_client_app returns an
\* error, and run returns it.
operator_run_error ==
    /\ operator_run \in FallibleCalls
    /\ operator_run' = "error"
    /\ UNCHANGED <<is_operator_registered, event_listener, task_processor,
                   stream_count, event, rx, dequeued>>
    /\ UNCHANGED operator_txs
    /\ UNCHANGED docker_vars
    /\ UNCHANGED aggregator_vars

\* register_operator_in_avs: the first isOperatorRegistered call answers.
register_operator_in_avs ==
    /\ operator_run = "new"
    /\ \E isRegistered \in BOOLEAN :
          is_operator_registered' = <<isRegistered>>
    /\ operator_run' = "read"
    /\ UNCHANGED <<event_listener, task_processor, stream_count, event, rx,
                   dequeued>>
    /\ UNCHANGED operator_txs
    /\ UNCHANGED docker_vars
    /\ UNCHANGED aggregator_vars

\* Faulty variant: a registered operator skips the registration transaction
\* and goes on to the client-app check.
register_operator_in_avs_if_FallThrough ==
    /\ operator_run = "read"
    /\ operator_run' = IF Head(is_operator_registered) THEN "app_check"
                       ELSE "registering"
    /\ UNCHANGED <<is_operator_registered, event_listener, task_processor,
                   stream_count, event, rx, dequeued>>
    /\ UNCHANGED operator_txs
    /\ UNCHANGED docker_vars
    /\ UNCHANGED aggregator_vars

\* register_operator_in_avs: `if is_operator_registered { return Ok(()) }`.
register_operator_in_avs_if ==
    /\ operator_run = "read"
    /\ operator_run' = IF Head(is_operator_registered) THEN "fetching"
                       ELSE "registering"
    /\ UNCHANGED <<is_operator_registered, event_listener, task_processor,
                   stream_count, event, rx, dequeued>>
    /\ UNCHANGED operator_txs
    /\ UNCHANGED docker_vars
    /\ UNCHANGED aggregator_vars

\* register_operator_in_avs: the digest is computed and signed and the
\* registerOperatorToAVS transaction is sent and watched.
register_operator_in_avs_send ==
    /\ operator_run = "registering"
    /\ operator_run' = "submitted"
    /\ UNCHANGED <<is_operator_registered, event_listener, task_processor,
                   stream_count, event, rx, dequeued>>
    /\ operator_txs' = Append(operator_txs, "registerOperatorToAVS")
    /\ UNCHANGED docker_vars
    /\ UNCHANGED aggregator_vars

\* register_operator_in_avs: the second isOperatorRegistered call answers.
register_operator_in_avs_check ==
    /\ operator_run = "submitted"
    /\ \E isRegistered \in BOOLEAN :
          is_operator_registered' = <<isRegistered>>
    /\ operator_run' = "checked"
    /\ UNCHANGED <<event_listener, task_processor, stream_count, event, rx,
                   dequeued>>
    /\ UNCHANGED operator_txs
    /\ UNCHANGED docker_vars
    /\ UNCHANGED aggregator_vars

\* Faulty variant: the answer read after the transaction is only logged.
register_operator_in_avs_match_LogOnly ==
    /\ operator_run = "checked"
    /\ operator_run' = "app_check"
    /\ UNCHANGED <<is_operator_registered, event_listener, task_processor,
                   stream_count, event, rx, dequeued>>
    /\ UNCHANGED operator_txs
    /\ UNCHANGED docker_vars
    /\ UNCHANGED aggregator_vars

\* register_operator_in_avs: `match is_operator_registered`, whose false arm
\* returns Err("Operator registration failed").
register_operator_in_avs_match ==
    /\ operator_run = "checked"
    /\ operator_run' = IF Head(is_operator_registered) THEN "app_check"
                       ELSE "registration_failed"
    /\ UNCHANGED <<is_operator_registered, event_listener, task_processor,
                   stream_count, event, rx, dequeued>>
    /\ UNCHANGED operator_txs
    /\ UNCHANGED docker_vars
    /\ UNCHANGED aggregator_vars

\* register_operator_in_avs: operatorClientAppIdRegistrationStatus answers;
\* a registered client app returns Ok(()).
register_client_app ==
    /\ operator_run = "app_check"
    /\ \E isRegistered \in BOOLEAN :
          operator_run' = IF isRegistered THEN "fetching" ELSE "opting_in"
    /\ UNCHANGED <<is_operator_registered, event_listener, task_processor,
                   stream_count, event, rx, dequeued>>
    /\ UNCHANGED operator_txs
    /\ UNCHANGED docker_vars
    /\ UNCHANGED aggregator_vars

\* register_operator_in_avs: the optInClientAppId transaction is sent and
\* watched.
register_client_app_send ==
    /\ operator_run = "opting_in"
    /\ operator_run' = "opted_in"
    /\ UNCHANGED <<is_operator_registered, event_listener, task_processor,
                   stream_count, event, rx, dequeued>>
    /\ operator_txs' = Append(operator_txs, "optInClientAppId")
    /\ UNCHANGED docker_vars
    /\ UNCHANGED aggregator_vars

\* register_operator_in_avs: the status is read again and matched; its false
\* arm returns Err("Client app registration failed").
register_client_app_match ==
    /\ operator_run = "opted_in"
    /\ \E isRegistered \in BOOLEAN :
          operator_run' = IF isRegistered THEN "fetching"
                          ELSE "client_app_failed"
    /\ UNCHANGED <<is_operator_registered, event_listener, task_processor,
                   stream_count, event, rx, dequeued>>
    /\ UNCHANGED operator_txs
    /\ UNCHANGED docker_vars
    /\ UNCHANGED aggregator_vars

\* fetch_client_app: Docker::connect_with_socket(..).unwrap() panics, and
\* run with it.
fetch_client_app_panic ==
    /\ operator_run = "fetching"
    /\ operator_run' = "panicked"
    /\ UNCHANGED <<is_operator_registered, event_listener, task_processor,
                   stream_count, event, rx, dequeued>>
    /\ UNCHANGED operator_txs
    /\ UNCHANGED docker_vars
    /\ UNCHANGED aggregator_vars

\* run: fetch_client_app has returned Ok, the queue is created and the two
\* tasks are spawned.
operator_run_spawn ==
    /\ operator_run = "fetching"
    /\ operator_run' = "running"
    /\ event_listener' = "subscribing"
    /\ task_processor' = "running"
    /\ UNCHANGED <<is_operator_registered, stream_count, event, rx, dequeued>>
    /\ UNCHANGED operator_txs
    /\ UNCHANGED docker_vars
    /\ UNCHANGED aggregator_vars

\* listen_for_events: the subscription to the TaskRequested filter succeeds.
listen_for_events_subscribe ==
    /\ operator_run = "running"
    /\ event_listener = "subscribing"
    /\ event_listener' = "listening"
    /\ UNCHANGED <<operator_run, is_operator_registered, task_processor,
                   stream_count, event, rx, dequeued>>
    /\ UNCHANGED operator_txs
    /\ UNCHANGED docker_vars
    /\ UNCHANGED aggregator_vars

\* listen_for_events: the subscription fails and the `?` returns the error.
listen_for_events_subscribe_error ==
    /\ operator_run = "running"
    /\ event_listener = "subscribing"
    /\ event_listener' = "failed"
    /\ UNCHANGED <<operator_run, is_operator_registered, task_processor,
                   stream_count, event, rx, dequeued>>
    /\ UNCHANGED operator_txs
    /\ UNCHANGED docker_vars
    /\ UNCHANGED aggregator_vars

\* listen_for_events: stream.next() yields Ok(event).
listen_for_events ==
    /\ operator_run = "running"
    /\ event_listener = "listening"
    /\ stream_count < MaxEvents
    /\ stream_count' = stream_count + 1
    /\ event' = <<stream_count + 1>>
    /\ event_listener' = "sending"
    /\ UNCHANGED <<operator_run, is_operator_registered, task_processor, rx,
                   dequeued>>
    /\ UNCHANGED operator_txs
    /\ UNCHANGED docker_vars
    /\ UNCHANGED aggregator_vars

\* listen_for_events: stream.next() yields Err, which is logged.
listen_for_events_error ==
    /\ operator_run = "running"
    /\ event_listener = "listening"
    /\ UNCHANGED <<announced, operator_vars>>
    /\ UNCHANGED aggregator_vars

\* Faulty variant: try_send, which drops the event when the queue is full.
listen_for_events_send_TrySend ==
    /\ operator_run = "running"
    /\ event_listener = "sending"
    /\ IF task_processor = "running" /\ Len(rx) < QUEUE_CAPACITY
       THEN rx' = Append(rx, Head(event))
       ELSE UNCHANGED rx
    /\ event' = <<>>
    /\ event_listener' = "listening"
    /\ UNCHANGED <<operator_run, is_operator_registered, task_processor,
                   stream_count, dequeued>>
    /\ UNCHANGED operator_txs
    /\ UNCHANGED docker_vars
    /\ UNCHANGED aggregator_vars

\* listen_for_events: tx.send(event.0).await, which waits while the queue is
\* full and fails once the receiver is gone.
listen_for_events_send ==
    /\ operator_run = "running"
    /\ event_listener = "sending"
    /\ IF task_processor = "running"
       THEN /\ Len(rx) < QUEUE_CAPACITY
            /\ rx' = Append(rx, Head(event))
       ELSE \* receiver dropped: the send error is logged
            UNCHANGED rx
    /\ event' = <<>>
    /\ event_listener' = "listening"
    /\ UNCHANGED <<operator_run, is_operator_registered, task_processor,
                   stream_count, dequeued>>
    /\ UNCHANGED operator_txs
    /\ UNCHANGED docker_vars
    /\ UNCHANGED aggregator_vars

\* listen_for_events: the stream ends, the loop is left and the function
\* returns Ok(()).
listen_for_events_end ==
    /\ operator_run = "running"
    /\ event_listener = "listening"
    /\ event_listener' = "returned"
    /\ UNCHANGED <<operator_run, is_operator_registered, task_processor,
                   stream_count, event, rx, dequeued>>
    /\ UNCHANGED operator_txs
    /\ UNCHANGED docker_vars
    /\ UNCHANGED aggregator_vars

\* What the execution of one task can come to: the container ran and was
\* removed, the docker URL did not match the pattern, or one of the calls
\* that are unwrapped returned an error.
ExecutionOutcomes ==
    {"processed", "no_image", "metadata_error", "connect_error",
     "create_error", "start_error", "stop_error", "remove_error"}

\* The outcomes whose Result is an Err: its unwrap panics.
Panics(outcome) == outcome \notin {"processed", "no_image"}

\* The number of times one iteration of process_tasks posts the claim of its
\* task to the coordinator again after a "not found" answer. The loop body
\* ends with the removal of the container and the "Processed task" log: it
\* signs nothing and posts nothing, so there is no first attempt and no retry.
SubmissionRetries(task) == 0

\* The outcomes that leave the container of the task in place: the panic
\* comes after create_container has succeeded.
ContainerLeft == {"start_error", "stop_error", "remove_error"}

\* process_tasks: one iteration of its loop, from rx.recv() on.
process_tasks ==
    /\ operator_run = "running"
    /\ task_processor = "running"
    /\ rx # <<>>
    /\ dequeued' = Append(dequeued, Head(rx))
    /\ \E outcome \in ExecutionOutcomes :
          IF Panics(outcome)
          THEN \* the task panics: the receiver and the queue are dropped,
               \* and a container that was created is left behind
               /\ task_processor' = "panicked"
               /\ rx' = <<>>
               /\ containers' = IF outcome \in ContainerLeft
                                 THEN containers \cup {Head(rx)}
                                 ELSE containers
          ELSE /\ rx' = Tail(rx)
               /\ UNCHANGED <<task_processor, containers>>
    /\ UNCHANGED <<operator_run, is_operator_registered, event_listener,
                   stream_count, event>>
    /\ UNCHANGED operator_txs
    /\ UNCHANGED processing
    /\ UNCHANGED run_image_vars
    /\ UNCHANGED aggregator_vars

\* process_tasks: rx.recv() returns None once the listener has returned,
\* which drops the sender, and the queue is drained.
process_tasks_end ==
    /\ operator_run = "running"
    /\ task_processor = "running"
    /\ processing = "idle"
    /\ event_listener \in {"returned", "failed"}
    /\ rx = <<>>
    /\ task_processor' = "returned"
    /\ UNCHANGED <<operator_run, is_operator_registered, event_listener,
                   stream_count, event, rx, dequeued>>
    /\ UNCHANGED operator_txs
    /\ UNCHANGED docker_vars
    /\ UNCHANGED aggregator_vars

\* Faulty variant: both handles are joined, so the return waits for the
\* listener and for the processor.
handle_tasks_JoinBoth ==
    /\ operator_run = "running"
    /\ event_listener \in {"returned", "failed"}
    /\ task_processor \in {"panicked", "returned"}
    /\ operator_run' = IF event_listener = "returned"
                          /\ task_processor = "returned"
                       THEN "ok" ELSE "error"
    /\ UNCHANGED <<is_operator_registered, event_listener, task_processor,
                   stream_count, event, rx, dequeued>>
    /\ UNCHANGED operator_txs
    /\ UNCHANGED docker_vars
    /\ UNCHANGED aggregator_vars

\* handle_tasks: the select takes a branch whose task has finished: the
\* listener's own Result, or the error of a processor that exited. run
\* returns it and the process ends, and the other task with it.
handle_tasks ==
    /\ operator_run = "running"
    /\ \/ /\ event_listener = "returned"
          /\ operator_run' = "ok"
       \/ /\ event_listener = "failed"
          /\ operator_run' = "error"
       \/ /\ task_processor \in {"panicked", "returned"}
          /\ operator_run' = "error"
    /\ UNCHANGED <<is_operator_registered, event_listener, task_processor,
                   stream_count, event, rx, dequeued>>
    /\ UNCHANGED operator_txs
    /\ UNCHANGED docker_vars
    /\ UNCHANGED aggregator_vars

OperatorNext ==
    \/ operator_run_error
    \/ register_operator_in_avs
    \/ register_operator_in_avs_if
    \/ register_operator_in_avs_send
    \/ register_operator_in_avs_check
    \/ register_operator_in_avs_match
    \/ register_client_app
    \/ register_client_app_send
    \/ register_client_app_match
    \/ fetch_client_app_panic
    \/ operator_run_spawn
    \/ listen_for_events_subscribe
    \/ listen_for_events_subscribe_error
    \/ listen_for_events
    \/ listen_for_events_error
    \/ listen_for_events_send
    \/ listen_for_events_end
    \/ process_tasks
    \/ process_tasks_end
    \/ handle_tasks

OperatorSpec == Init /\ [][OperatorNext]_vars

(***************************************************************************)
(* Properties.                                                             *)
(***************************************************************************)
\* N: the size of the membership set loaded at startup.
MembershipSize == Cardinality(operator_list)

Terminal(status) == status = COMPLETED \/ status = FAILED

\* The status the directory holds for a task, EMPTY when it holds none.
StoredStatus(directory, task_id) ==
    IF task_id \in DOMAIN directory THEN directory[task_id] ELSE EMPTY

\* The positions of the verdicts computed for a task.
VerdictsFor(task_id) ==
    { i \in 1..Len(verdicts) : verdicts[i].task_id = task_id }

\* The number of claims an accumulator holds for a task.
ClaimCount(responses, task_id) ==
    IF task_id \in DOMAIN responses THEN Len_(responses[task_id]) ELSE 0

\* C1: for every task, a completed snapshot is forwarded to the consensus
\* stage at most once and at most one verdict is computed, whatever the
\* interleaving of submissions, repeated ones included.
C1_OneVerdictPerTask ==
    \A t \in TaskIds :
        /\ forwarded[t] <= 1
        /\ Cardinality(VerdictsFor(t)) <= 1

\* In a state: whatever was forwarded or decided rests on N claims, and a
\* task that holds the claims of only k operators, 0 < k < N, has no verdict
\* and is PENDING.
VerdictsRestOnFullParticipation ==
    /\ \A t \in TaskIds :
          (forwarded[t] > 0 \/ VerdictsFor(t) # {})
              => ClaimCount(operator_responses, t) = MembershipSize
    /\ \A i \in 1..Len(rx_aggregated_response) :
          Len_(rx_aggregated_response[i].responses) = MembershipSize
    /\ \A i \in 1..Len(verdicts) :
          Len_(verdicts[i].responses) = MembershipSize
    /\ \A t \in TaskIds :
          (0 < ClaimCount(operator_responses, t)
             /\ ClaimCount(operator_responses, t) < MembershipSize)
              => /\ VerdictsFor(t) = {}
                 /\ forwarded[t] = 0
                 /\ StoredStatus(tasks, t) = PENDING

\* C2: in every state a task with a forwarded snapshot or a verdict holds the
\* claims of N distinct operators and a task holding only k of them,
\* 0 < k < N, has no verdict and is PENDING; and in every step a PENDING task
\* that holds fewer than N claims after the step is still PENDING.
C2_NoVerdictBeforeFullParticipation ==
    [][vars' # vars =>
       /\ VerdictsRestOnFullParticipation
       /\ VerdictsRestOnFullParticipation'
       /\ \A t \in TaskIds :
             (StoredStatus(tasks, t) = PENDING
                /\ ClaimCount(operator_responses', t) < Cardinality(operator_list'))
                 => StoredStatus(tasks', t) = PENDING
      ]_vars

\* A task holds the claim of one member of two, and everything submitted has
\* been ingested.
C2_Witness ==
    /\ MembershipSize = 2
    /\ submissions = MaxSubmissions
    /\ rx_response = <<>>
    /\ \E t \in TaskIds : ClaimCount(operator_responses, t) = 1

\* The numeric texts with the numbers they stand for.
NumericTexts == { <<"4", "2">>, <<" ", "4", "2">>, <<"4", "3">> }

NumberOf(text) ==
    CASE text = <<"4", "2">> -> 42
      [] text = <<" ", "4", "2">> -> 42
      [] text = <<"4", "3">> -> 43

\* The reference rule: all values equal gives (COMPLETED, the value), any
\* mismatch gives (FAILED, 0).
ReferenceVerdict(responses) ==
    LET values == { NumberOf(responses[a].result) : a \in DOMAIN responses }
    IN  IF Cardinality(values) = 1
        THEN [status |-> COMPLETED, result |-> CHOOSE v \in values : TRUE]
        ELSE [status |-> FAILED, result |-> 0]

\* A step of process_completed_tasks: it takes the head snapshot and either
\* computes a verdict or panics.
ConsensusStep ==
    /\ consensus = "running"
    /\ rx_aggregated_response # <<>>
    /\ (verdicts' # verdicts \/ consensus' # consensus)

\* C3: for every snapshot whose texts are all numeric, process_completed_tasks
\* computes the verdict of the reference rule for that task.
C3_VerdictFollowsReferenceRule ==
    [][ConsensusStep =>
        LET snapshot == Head(rx_aggregated_response)
        IN  (\A a \in DOMAIN snapshot.responses :
                 snapshot.responses[a].result \in NumericTexts)
            => verdicts' = Append(verdicts,
                   [task_id |-> snapshot.task_id,
                    responses |-> snapshot.responses,
                    status |-> ReferenceVerdict(snapshot.responses).status,
                    result |-> ReferenceVerdict(snapshot.responses).result])
      ]_vars

\* Two members agreed on 42 with different texts and the verdict is computed.
C3_Witness ==
    \E i \in 1..Len(verdicts) :
        /\ Len_(verdicts[i].responses) = 2
        /\ \E a, b \in DOMAIN verdicts[i].responses :
              verdicts[i].responses[a].result # verdicts[i].responses[b].result
        /\ verdicts[i].status = COMPLETED
        /\ verdicts[i].result = 42

\* The values of a snapshot, per operator and in an iteration order.
PerOperatorValues(responses) ==
    [a \in DOMAIN responses |-> parse(trim(responses[a].result)).val]

ValuesInOrder(responses, order) ==
    [i \in 1..Len(order) |-> parse(trim(responses[order[i]].result)).val]

\* The verdict computed from a snapshot is the one every processing order of
\* its claims gives, and two snapshots with the same per-operator values have
\* the same verdict.
SnapshotVerdictOrderIndependent ==
    \A i \in 1..Len(verdicts) :
        /\ \A order \in IterationOrders(verdicts[i].responses) :
              ConsensusOf(ValuesInOrder(verdicts[i].responses, order))
                  = [status |-> verdicts[i].status, result |-> verdicts[i].result]
        /\ \A j \in 1..Len(verdicts) :
              PerOperatorValues(verdicts[i].responses)
                  = PerOperatorValues(verdicts[j].responses)
              => /\ verdicts[i].status = verdicts[j].status
                 /\ verdicts[i].result = verdicts[j].result

\* Everything submitted has been ingested and every snapshot processed.
PipelineDrained ==
    /\ rx_response = <<>>
    /\ rx_aggregated_response = <<>>

\* C4: the verdict of a task is decided by the values its operators ended up
\* with: once the pipeline is drained, every verdict computed for a task is
\* the one its final numeric per-operator values give, in whatever order the
\* claims arrived or were processed.
C4_VerdictOfFinalValues ==
    PipelineDrained =>
        \A i \in 1..Len(verdicts) :
            LET final == operator_responses[verdicts[i].task_id]
            IN  (\A a \in DOMAIN final : final[a].result \in NumericTexts)
                => \A order \in IterationOrders(final) :
                       ConsensusOf(ValuesInOrder(final, order))
                           = [status |-> verdicts[i].status,
                              result |-> verdicts[i].result]

\* The moves of a status the lifecycle allows.
LifecycleStep(before, after) ==
    \/ after = before
    \/ before = EMPTY /\ after = PENDING
    \/ before = PENDING /\ Terminal(after)

\* C5: once the directory is seeded, the status of every task changes only
\* along EMPTY -> PENDING -> {COMPLETED, FAILED}.
C5_StatusLifecycle ==
    [][phase = "serving" =>
        \A t \in TaskIds :
            LifecycleStep(StoredStatus(tasks, t), StoredStatus(tasks', t))
      ]_vars

\* C6: the accumulator entry of every task holds at most N claims.
C6_AccumulatorAtMostMembership ==
    \A t \in DOMAIN operator_responses :
        Len_(operator_responses[t]) <= MembershipSize

\* The one member submitted twice for a task, both claims were ingested, and
\* the entry of the task holds one claim.
C6_Witness ==
    /\ MembershipSize = 1
    /\ submissions = 2
    /\ rx_response = <<>>
    /\ \E t \in TaskIds :
          /\ ClaimCount(operator_responses, t) = 1
          /\ \A u \in TaskIds \ {t} : ClaimCount(operator_responses, u) = 0

\* A step of queue_operator_response that ingests the head claim.
IngestionStep ==
    /\ ingestion = "running"
    /\ rx_response # <<>>
    /\ rx_response' = Tail(rx_response)

\* The claim an accumulator holds for a (task, operator) pair, if any.
Retained(responses, task_id, address) ==
    IF task_id \in DOMAIN responses /\ address \in DOMAIN responses[task_id]
    THEN {responses[task_id][address]}
    ELSE {}

\* C7: ingesting a claim makes it the one retained for its task and its
\* recovered address, and leaves the entry of every other (task, operator)
\* pair as it was.
C7_LastClaimRetained ==
    [][IngestionStep =>
        LET response == Head(rx_response)
            address == recover_address_from_msg(response.signature,
                                                response.result)
        IN  /\ Retained(operator_responses', response.task_id, address)
                  = {response}
            /\ \A t \in TaskIds, a \in Signers \cup {UnrelatedAddress} :
                  (t # response.task_id \/ a # address)
                      => Retained(operator_responses', t, a)
                           = Retained(operator_responses, t, a)
      ]_vars

\* The one member claimed twice for a task with different texts: each claim
\* gave a snapshot, and the accumulator holds the second.
C7_Witness ==
    /\ Len(verdicts) = 2
    /\ verdicts[1].task_id = verdicts[2].task_id
    /\ verdicts[1].responses # verdicts[2].responses
    /\ operator_responses[verdicts[2].task_id] = verdicts[2].responses

\* C8: every claim in the accumulator is stored under the address recovered
\* from its signature over its result text, that address is a member, and
\* every claim waiting in the ingestion channel recovers to a member.
C8_ClaimsKeyedByRecoveredMember ==
    /\ \A t \in DOMAIN operator_responses :
          \A a \in DOMAIN operator_responses[t] :
              /\ recover_address_from_msg(operator_responses[t][a].signature,
                                          operator_responses[t][a].result) = a
              /\ a \in operator_list
              /\ operator_responses[t][a].task_id = t
    /\ \A i \in 1..Len(rx_response) :
          recover_address_from_msg(rx_response[i].signature,
                                   rx_response[i].result) \in operator_list

\* Both members have a claim in the accumulator of a task.
C8_Witness ==
    \E t \in DOMAIN operator_responses :
        /\ Len_(operator_responses[t]) = 2
        /\ DOMAIN operator_responses[t] = operator_list

\* A submission whose text is not the one its signature was made over.
Tampered(operator_response) ==
    /\ operator_response.signature # MalformedSignature
    /\ operator_response.signature.msg # operator_response.result

\* C9: in every state handle_submit_task answers a tampered submission with
\* 400 or 403, and no tampered claim is in the ingestion channel or in the
\* accumulator.
C9_TamperedRejected ==
    /\ \A operator_response \in OperatorResponse :
          Tampered(operator_response)
              => SubmitResponse(operator_response, operator_list, tasks,
                                ingestion) \in {BAD_REQUEST, FORBIDDEN}
    /\ \A i \in 1..Len(rx_response) : ~Tampered(rx_response[i])
    /\ \A t \in DOMAIN operator_responses :
          \A a \in DOMAIN operator_responses[t] :
              ~Tampered(operator_responses[t][a])

\* A member's claim for a PENDING task is accepted as signed and answered
\* 403 once its text is altered, while an earlier claim is being processed.
C9_Witness ==
    /\ phase = "serving"
    /\ operator_responses # EmptyMap
    /\ \E operator_response \in OperatorResponse, text \in Texts :
          /\ operator_response.signature.signer \in operator_list
          /\ text # operator_response.result
          /\ SubmitResponse(operator_response, operator_list, tasks,
                            ingestion) = OK
          /\ SubmitResponse([operator_response EXCEPT !.result = text],
                            operator_list, tasks, ingestion) = FORBIDDEN

\* The number of claims for a task in the ingestion channel.
Queued(channel, task_id) ==
    Cardinality({ i \in 1..Len(channel) : channel[i].task_id = task_id })

\* A claim for a task with a text, signed over that text by a member.
MemberClaims(task_id) ==
    { [task_id |-> task_id, result |-> text, signature |-> Sign(a, text)] :
          a \in operator_list, text \in Texts }

\* While a task is COMPLETED or FAILED in the directory, handle_submit_task
\* answers every claim a member signed for it with 409, and no step adds a
\* claim for it to the ingestion channel.
TerminalStatusAnswered409 ==
    [][\A t \in TaskIds :
          Terminal(StoredStatus(tasks, t))
              => /\ \A operator_response \in MemberClaims(t) :
                       SubmitResponse(operator_response, operator_list, tasks,
                                      ingestion) = CONFLICT
                 /\ Queued(rx_response', t) <= Queued(rx_response, t)
      ]_vars

\* C10: once the directory has held a task as COMPLETED or FAILED,
\* handle_submit_task answers every later claim a member signed for it with
\* 409, and no later step adds a claim for it to the ingestion channel.
C10_TerminalTaskRejected ==
    [][\A t \in finalized :
          /\ \A operator_response \in MemberClaims(t) :
                SubmitResponse(operator_response, operator_list, tasks,
                               ingestion) = CONFLICT
          /\ Queued(rx_response', t) <= Queued(rx_response, t)
      ]_vars

\* The states a send to the ingestion channel can find its receiver in.
ReceiverStates == {"running", "exited"}

\* The checks of a submission, each by itself.
RecoveryFails(operator_response) ==
    operator_response.signature = MalformedSignature

SignerIsMember(operator_response) ==
    /\ operator_response.signature # MalformedSignature
    /\ operator_response.signature.msg = operator_response.result
    /\ operator_response.signature.signer \in operator_list

TaskUnknown(operator_response) ==
    \/ operator_response.task_id \notin DOMAIN tasks
    \/ tasks[operator_response.task_id] = EMPTY

TaskTerminal(operator_response) ==
    /\ operator_response.task_id \in DOMAIN tasks
    /\ Terminal(tasks[operator_response.task_id])

\* C11: for every submission and every state of the receiver, the answer of
\* handle_submit_task is that of the first failing check in the order
\* recovery (400), membership (403), task known (404), task not terminal
\* (409), send (500), and 200 when none fails.
C11_FirstFailingCheckDecides ==
    \A operator_response \in OperatorResponse, receiver \in ReceiverStates :
        SubmitResponse(operator_response, operator_list, tasks, receiver) =
            CASE RecoveryFails(operator_response) -> BAD_REQUEST
              [] ~RecoveryFails(operator_response)
                   /\ ~SignerIsMember(operator_response) -> FORBIDDEN
              [] SignerIsMember(operator_response)
                   /\ TaskUnknown(operator_response) -> NOT_FOUND
              [] SignerIsMember(operator_response)
                   /\ TaskTerminal(operator_response) -> CONFLICT
              [] SignerIsMember(operator_response)
                   /\ ~TaskUnknown(operator_response)
                   /\ ~TaskTerminal(operator_response)
                   /\ receiver # "running" -> INTERNAL_SERVER_ERROR
              [] OTHER -> OK

\* One task is stored as EMPTY and the other is terminal: a malformed
\* signature on the terminal task is answered 400, an outsider's claim for it
\* 403, a member's claim for the EMPTY task 404 and for the terminal one 409.
C11_Witness ==
    /\ phase = "serving"
    /\ operator_list # {}
    /\ \E t, u \in DOMAIN tasks :
          /\ tasks[t] = EMPTY
          /\ Terminal(tasks[u])
          /\ \E text \in Texts, a \in operator_list :
                /\ SubmitResponse([task_id |-> u, result |-> text,
                                   signature |-> MalformedSignature],
                                  operator_list, tasks, ingestion) = BAD_REQUEST
                /\ SubmitResponse([task_id |-> u, result |-> text,
                                   signature |-> Sign(Outsider, text)],
                                  operator_list, tasks, ingestion) = FORBIDDEN
                /\ SubmitResponse([task_id |-> t, result |-> text,
                                   signature |-> Sign(a, text)],
                                  operator_list, tasks, ingestion) = NOT_FOUND
                /\ SubmitResponse([task_id |-> u, result |-> text,
                                   signature |-> Sign(a, text)],
                                  operator_list, tasks, ingestion) = CONFLICT

\* handle_submit_task answers 200 exactly when the signature recovers to a
\* member, the stored status of the task is PENDING and the claim can go on
\* the ingestion channel.
OkExactlyWhenAcceptable ==
    \A operator_response \in OperatorResponse :
        (SubmitResponse(operator_response, operator_list, tasks, ingestion) = OK)
            <=> /\ SignerIsMember(operator_response)
                /\ StoredStatus(tasks, operator_response.task_id) = PENDING
                /\ ingestion = "running"

\* C12: in every step the program takes, handle_submit_task answers 200
\* exactly when the signature recovers to a member, the stored status of the
\* task is PENDING and the claim goes on the ingestion channel; a step that
\* accepts a submission appends that one claim once, and no claim answered
\* with an error is ever appended.
C12_OkIffEnqueued ==
    [][vars' # vars =>
        /\ OkExactlyWhenAcceptable
        /\ (submissions' # submissions \/ Len(rx_response') > Len(rx_response))
              => \E operator_response \in OperatorResponse :
                    /\ SubmitResponse(operator_response, operator_list, tasks,
                                      ingestion) = OK
                    /\ rx_response' = Append(rx_response, operator_response)
                    /\ submissions' = submissions + 1
      ]_vars

\* Two claims were accepted and wait in the channel while the other task is
\* terminal, so that a member's claim for it is answered 409.
C12_Witness ==
    /\ submissions = 2
    /\ Len(rx_response) = 2
    /\ \E t \in DOMAIN tasks, a \in operator_list, text \in Texts :
          /\ Terminal(tasks[t])
          /\ SubmitResponse([task_id |-> t, result |-> text,
                             signature |-> Sign(a, text)],
                            operator_list, tasks, ingestion) = CONFLICT

\* C13: the task-status query answers, for every task id, with a TaskStatus:
\* the status stored for the id, EMPTY when the directory holds none; and a
\* step of handle_task_status leaves the directory, the accumulator and the
\* three channels as they were.
C13_StatusQueryReadsOnly ==
    [][/\ \A task_id \in TaskIds :
             /\ TaskStatusResponse(tasks, task_id) \in TaskStatus
             /\ task_id \in DOMAIN tasks
                   => TaskStatusResponse(tasks, task_id) = tasks[task_id]
             /\ task_id \notin DOMAIN tasks
                   => TaskStatusResponse(tasks, task_id) = EMPTY
             /\ handle_task_status(task_id)
                   => UNCHANGED <<tasks, operator_responses, rx_response,
                                  rx_aggregated_response, rx_task_process>>
      ]_vars

\* The directory holds one task, as COMPLETED: the query answers COMPLETED
\* for it and EMPTY for the other id.
C13_Witness ==
    /\ phase = "serving"
    /\ \E t \in TaskIds, u \in TaskIds :
          /\ DOMAIN tasks = {t}
          /\ u # t
          /\ TaskStatusResponse(tasks, t) = COMPLETED
          /\ TaskStatusResponse(tasks, u) = EMPTY

\* The positions of the transactions submitted for a task.
TxsFor(task_id) ==
    { i \in 1..Len(ledger_txs) : ledger_txs[i].task_id = task_id }

\* C14: for every task id at most one respondToTask transaction has been
\* submitted to the ledger.
C14_OneFinalizationPerTask ==
    \A t \in TaskIds : Cardinality(TxsFor(t)) <= 1

\* C15: a transaction failure does not end send_task_result: a step taken
\* while the stage runs and verdicts wait in its channel leaves it running.
C15_TxFailureNotFatal ==
    [][(finalization = "running" /\ rx_task_process # <<>>)
           => finalization' = "running"
      ]_vars

\* The TaskResults computed so far, in the order of their computation.
VerdictResults ==
    [i \in 1..Len(verdicts) |->
        TaskResult(verdicts[i].task_id, verdicts[i].status, verdicts[i].result)]

\* In a state: the i-th transaction submitted carries the task id, the status
\* and the value of the i-th verdict computed.
TxsFollowVerdicts ==
    /\ Len(ledger_txs) <= Len(verdicts)
    /\ \A i \in 1..Len(ledger_txs) :
          /\ ledger_txs[i].task_id = VerdictResults[i].task_id
          /\ TaskStatusFromU8(ledger_txs[i].status) = VerdictResults[i].status
          /\ ledger_txs[i].result = VerdictResults[i].result

\* C17: transactions are submitted in the order in which the verdicts were
\* computed, each carrying the task id, status and value of its verdict, and
\* a step submits at most one transaction, after those submitted before.
C17_TxsInVerdictOrder ==
    [][vars' # vars =>
       /\ TxsFollowVerdicts
       /\ TxsFollowVerdicts'
       /\ \/ ledger_txs' = ledger_txs
          \/ /\ Len(ledger_txs') = Len(ledger_txs) + 1
             /\ SubSeq(ledger_txs', 1, Len(ledger_txs)) = ledger_txs
      ]_vars

\* Two tasks got a verdict, 42 for the first and 43 for the second, and the
\* transaction of each was submitted in that order.
C17_Witness ==
    /\ Len(ledger_txs) = 2
    /\ ledger_txs[1].task_id # ledger_txs[2].task_id
    /\ ledger_txs[1].status = 2
    /\ ledger_txs[1].result = 42
    /\ ledger_txs[2].result = 43

ChannelsWithinCapacity ==
    /\ Len(rx_response) <= CHANNEL_CAPACITY
    /\ Len(rx_aggregated_response) <= CHANNEL_CAPACITY
    /\ Len(rx_task_process) <= CHANNEL_CAPACITY

\* A channel after a step: as it was, without its head, or with one item
\* appended.
FifoStep(before, after) ==
    \/ after = before
    \/ before # <<>> /\ after = Tail(before)
    \/ Len(after) = Len(before) + 1 /\ SubSeq(after, 1, Len(before)) = before

\* C18: no channel ever holds more than CHANNEL_CAPACITY items, and while the
\* stage reading a channel runs nothing is lost: every accepted claim, every
\* snapshot of a completed entry and every TaskResult sent is appended to its
\* channel, and a channel changes only by losing its head or gaining an item.
C18_ChannelsBoundedNoDrop ==
    [][/\ ChannelsWithinCapacity
       /\ ChannelsWithinCapacity'
       /\ (ingestion = "running" /\ ingestion' = "running")
             => FifoStep(rx_response, rx_response')
       /\ submissions' # submissions
             => Len(rx_response') = Len(rx_response) + 1
       /\ (consensus = "running" /\ consensus' = "running")
             => FifoStep(rx_aggregated_response, rx_aggregated_response')
       /\ (IngestionStep /\ ingestion' = "running" /\ consensus = "running"
             /\ ClaimCount(operator_responses', Head(rx_response).task_id)
                   = MembershipSize)
             => rx_aggregated_response' =
                    Append(rx_aggregated_response,
                           AggregatedResponse(Head(rx_response).task_id,
                               operator_responses'[Head(rx_response).task_id]))
       /\ (finalization = "running" /\ finalization' = "running")
             => FifoStep(rx_task_process, rx_task_process')
       /\ (task_result # <<>> /\ task_result' = <<>>
             /\ finalization = "running")
             => rx_task_process' = Append(rx_task_process, Head(task_result))
      ]_vars

\* The claim channel was full; the ingestion stage took a claim, the server
\* accepted one more, and the channel is full again.
C18_Witness ==
    /\ consensus = "panicked"
    /\ submissions = MaxSubmissions
    /\ Len(rx_response) = CHANNEL_CAPACITY

(***************************************************************************)
(* The operator's work queue.                                              *)
(***************************************************************************)
\* The events the stream has yielded so far, in order.
EventsUpTo(n) == [i \in 1..n |-> i]

\* C19: the operator's work queue never holds more than QUEUE_CAPACITY
\* events; while it is full the listener stays on its send and takes no
\* further event from the stream; and while the task processor is alive the
\* events received so far are exactly those already dequeued, those queued and
\* the one being sent, in the order received, so none is dropped.
C19_QueueBoundedNoDrop ==
    [][ /\ Len(rx) <= QUEUE_CAPACITY
        /\ Len(rx') <= QUEUE_CAPACITY
        /\ (/\ event_listener = "sending"
            /\ task_processor = "running"
            /\ Len(rx) = QUEUE_CAPACITY)
           => (stream_count' = stream_count /\ event' = event)
        /\ task_processor' = "running"
           => dequeued' \o rx' \o event' = EventsUpTo(stream_count') ]_vars

\* The queue was full when one more event arrived, the listener waited, and
\* after the processor took a task the event was enqueued.
C19_Witness ==
    /\ task_processor = "running"
    /\ stream_count = QUEUE_CAPACITY + 1
    /\ event = <<>>
    /\ Len(rx) = QUEUE_CAPACITY
    /\ dequeued = <<1>>

\* C20: a step of the task processor that takes a task from the queue leaves
\* the processor alive, the operator running and the tasks queued behind it
\* in the queue, whatever the execution of the task came to.
C20_FailedTaskOnlySkipped ==
    [][ dequeued' # dequeued
        => /\ task_processor' = "running"
           /\ operator_run' = "running"
           /\ rx' = Tail(rx) ]_vars

(***************************************************************************)
(* The operator's run: the select on its two tasks, and the registration   *)
(* that precedes them.                                                     *)
(***************************************************************************)
\* The scheduler polls run's select once one of its handles is ready.
FairOperatorSpec == OperatorSpec /\ WF_vars(handle_tasks)

ListenerExited == event_listener \in {"returned", "failed"}

ProcessorExited == task_processor \in {"panicked", "returned"}

C22_RegistrationGatesSteadyState ==
    [][ /\ (event_listener = "idle" /\ event_listener' # "idle")
           => /\ operator_run = "fetching"
              /\ is_operator_registered = <<TRUE>>
              /\ task_processor = "idle"
        /\ (/\ operator_run = "checked"
            /\ is_operator_registered = <<FALSE>>
            /\ operator_run' # operator_run)
           => operator_run' = "registration_failed"
        /\ (operator_run \in RunErrors /\ event_listener = "idle")
           => /\ UNCHANGED operator_vars
              /\ task_processor = "idle"
              /\ stream_count = 0
              /\ dequeued = <<>> ]_vars

\* The registration transaction went through, the state read after it was
\* "not registered", and run has returned its error.
C22_Witness ==
    /\ operator_run = "registration_failed"
    /\ is_operator_registered = <<FALSE>>
    /\ event_listener = "idle"

\* C23: when the coordinator answers "not found" to every attempt, a task
\* the processor has executed has had its claim posted again exactly 3 times,
\* after which the processor is still alive and run still running.
C23_ThreeRetriesThenGiveUp ==
    [][ (dequeued' # dequeued /\ task_processor' = "running")
        => /\ SubmissionRetries(Head(rx)) = 3
           /\ operator_run' = "running" ]_vars

(***************************************************************************)
(* The aggregator's process and its spawned tasks.                         *)
(***************************************************************************)
AllTasksAlive ==
    /\ listener = "listening"
    /\ ingestion = "running"
    /\ consensus = "running"
    /\ finalization = "running"

\* C24: the server accepts a submission only while the listener and the
\* three stages are all alive: once the listener has ended or a stage has
\* exited, the process is gone and serves no request.
C24_NoServingWithDeadTask ==
    [][ submissions' # submissions => AllTasksAlive ]_vars

(***************************************************************************)
(* Progress of a task from full participation to its finalization.         *)
(***************************************************************************)
\* Every member's accepted claim for the task is held by the accumulator,
\* and each of them is a numeric text.
AllMembersClaimedNumeric(task_id) ==
    /\ operator_list # {}
    /\ task_id \in DOMAIN operator_responses
    /\ DOMAIN operator_responses[task_id] = operator_list
    /\ \A a \in operator_list :
          parse(trim(operator_responses[task_id][a].result)).ok

\* A verdict was produced for the task, the directory has held it as
\* Completed or Failed, and a transaction for it was submitted.
Finalized(task_id) ==
    /\ VerdictsFor(task_id) # {}
    /\ task_id \in finalized
    /\ TxsFor(task_id) # {}

\* C25: with every stage scheduled fairly and every transaction confirmed,
\* once every member has an accepted numeric claim for a task, the task
\* eventually has a verdict, a terminal status and a finalization transaction.
\* Requests and events may stop at any moment, so the task gets there only
\* if, as long as it is not there, some stage can take a step.
C25_FullParticipationFinalizes ==
    \A task_id \in TaskIds :
        (AllMembersClaimedNumeric(task_id) /\ ~Finalized(task_id))
        => ENABLED ConfirmingStages

(***************************************************************************)
(* The Task Directory and the membership set over a run.                   *)
(***************************************************************************)
\* C26: every task the ledger has announced eventually has an entry in the
\* Task Directory, whether it was announced before the history query, after
\* the subscription became active, or in between.
C26_AnnouncedTaskEntersDirectory ==
    \A task_id \in TaskIds :
        (task_id \in announced) ~> (task_id \in DOMAIN tasks)

\* C27: with the stages not yet scheduled, the listener is the only writer of
\* the Task Directory, and a step leaves the stored status of every task id
\* the directory already knows (holds with a status other than Empty)
\* unchanged: an announcement sets Pending only for an id not yet known.
C27_KnownTaskLeftUnchanged ==
    [][ \A task_id \in DOMAIN tasks :
            tasks[task_id] # EMPTY
            => /\ task_id \in DOMAIN tasks'
               /\ tasks'[task_id] = tasks[task_id] ]_vars

\* The last item of a channel.
Last(channel) == channel[Len(channel)]

\* C28: once run has loaded the membership set, no step adds or removes a
\* member, and every snapshot the ingestion forwards holds as many claims as
\* the set run loaded has members.
C28_MembershipReadOnly ==
    [][ phase = "serving"
        => /\ operator_list' = operator_list
           /\ \A task_id \in TaskIds :
                 forwarded'[task_id] # forwarded[task_id]
                 => Len_(Last(rx_aggregated_response').responses)
                        = Cardinality(operator_list) ]_vars

\* Both members' claims for a task were inserted and compared against the
\* count of two, the second one forwarding the snapshot.
C28_Witness ==
    /\ Cardinality(operator_list) = 2
    /\ \E task_id \in DOMAIN operator_responses :
          /\ DOMAIN operator_responses[task_id] = operator_list
          /\ forwarded[task_id] = 1

\* The write of the listener: one id set to Pending.
ListenerWrite ==
    /\ listener = "listening"
    /\ \E task_id \in TaskIds : tasks' = Insert(tasks, task_id, PENDING)

\* The write of the consensus stage: the task of the TaskResult it has just
\* sent, set to that result's Completed or Failed.
ConsensusWrite ==
    /\ task_result # <<>>
    /\ task_result' = <<>>
    /\ Terminal(Head(task_result).status)
    /\ tasks' = Insert(tasks, Head(task_result).task_id,
                       Head(task_result).status)

\* C29: once the directory is seeded, no step removes an entry, and a step
\* that changes the directory is the listener's write of Pending or the
\* consensus stage's write of Completed or Failed. The steps of the submit
\* handler and of the ingestion (which change the claim channel or the
\* accumulator) and of the finalization (which change the transactions or end
\* the stage) leave it unchanged, and so does the status handler, whose step
\* changes nothing.
C29_DirectoryWriters ==
    [][ phase = "serving"
        => /\ DOMAIN tasks \subseteq DOMAIN tasks'
           /\ tasks' # tasks => (ListenerWrite \/ ConsensusWrite)
           /\ (\/ submissions' # submissions
               \/ rx_response' # rx_response
               \/ operator_responses' # operator_responses
               \/ ledger_txs' # ledger_txs
               \/ finalization' # finalization)
              => tasks' = tasks ]_vars

\* The consensus stage has written the verdict of a task whose transaction
\* was then sent, while another task is Pending with no snapshot yet and the
\* listener is alive.
C29_Witness ==
    /\ \E task_id \in DOMAIN tasks :
          /\ Terminal(tasks[task_id])
          /\ VerdictsFor(task_id) # {}
          /\ TxsFor(task_id) # {}
    /\ \E task_id \in DOMAIN tasks :
          /\ tasks[task_id] = PENDING
          /\ forwarded[task_id] = 0
    /\ listener = "listening"

(***************************************************************************)
(* The consensus stage and a claim that is not a number.                   *)
(***************************************************************************)
\* The snapshot holds a claim whose text is not one of the numeric texts.
HoldsNonNumeric(aggregated_response) ==
    \E a \in DOMAIN aggregated_response.responses :
        aggregated_response.responses[a].result \notin NumericTexts

\* The consensus stage takes a snapshot from its channel.
ConsensusReceives ==
    /\ consensus = "running"
    /\ task_result = <<>>
    /\ rx_aggregated_response # <<>>
    /\ consensus' # consensus \/ task_result' # task_result

\* C30: when the consensus stage takes a snapshot holding a claim that is not
\* a number, it faults: no verdict is produced and the directory is left as
\* it is. Once it has faulted it stays so: no verdict is produced and no
\* snapshot is forwarded any more, while the server and the ingestion stay
\* up, so that claims are still accepted and ingested.
C30_ParseFaultStopsConsensus ==
    [][ /\ (ConsensusReceives /\ HoldsNonNumeric(Head(rx_aggregated_response)))
           => /\ consensus' = "panicked"
              /\ verdicts' = verdicts
              /\ tasks' = tasks
        /\ consensus = "panicked"
           => /\ consensus' = "panicked"
              /\ verdicts' = verdicts
              /\ forwarded' = forwarded
              /\ task_result' = <<>>
              /\ tasks' # tasks => ListenerWrite
              /\ phase' = "serving"
              /\ ingestion' = "running" ]_vars

\* The stage has faulted; a claim accepted and ingested afterwards completed
\* the snapshot of a Pending task, which has no verdict.
C30_Witness ==
    /\ consensus = "panicked"
    /\ operator_list # {}
    /\ \E task_id \in DOMAIN operator_responses :
          /\ DOMAIN operator_responses[task_id] = operator_list
          /\ forwarded[task_id] = 0
          /\ VerdictsFor(task_id) = {}
          /\ task_id \in DOMAIN tasks
          /\ tasks[task_id] = PENDING

(***************************************************************************)
(* Aggregator::run call by call: the two startup fetches in their order,   *)
(* each with its `?`, then the spawns and run_server.                      *)
(***************************************************************************)
\* run: fetch_operator_list returns Ok and the membership set is filled.
run_fetch_operator_list ==
    /\ phase = "new"
    /\ \E fetched_operators \in Memberships :
          operator_list' = fetched_operators
    /\ phase' = "operators_fetched"
    /\ UNCHANGED <<tasks, operator_responses, rx_response,
                   rx_aggregated_response, rx_task_process, listener,
                   ingestion, consensus, finalization, ledger_txs,
                   submissions, forwarded, verdicts, finalized, task_result>>
    /\ UNCHANGED <<announced, operator_vars>>

\* run: the OperatorRegistered query fails and the `?` returns the
\* OperatorListFetchError.
run_fetch_operator_list_error ==
    /\ phase = "new"
    /\ phase' = "failed"
    /\ UNCHANGED <<operator_list, tasks, operator_responses, rx_response,
                   rx_aggregated_response, rx_task_process, listener,
                   ingestion, consensus, finalization, ledger_txs,
                   submissions, forwarded, verdicts, finalized, task_result>>
    /\ UNCHANGED <<announced, operator_vars>>

\* run: fetch_task_history returns Ok and the directory is replaced by it.
run_fetch_task_history ==
    /\ phase = "operators_fetched"
    /\ \E history \in LedgerHistories :
          /\ tasks' = fetch_task_history(history)
          /\ finalized' = { t \in DOMAIN history :
                              TaskStatusFromU8(history[t]) \in {COMPLETED, FAILED} }
          /\ announced' = DOMAIN history
    /\ phase' = "history_fetched"
    /\ UNCHANGED <<operator_list, operator_responses, rx_response,
                   rx_aggregated_response, rx_task_process, listener,
                   ingestion, consensus, finalization, ledger_txs,
                   submissions, forwarded, verdicts, task_result>>
    /\ UNCHANGED operator_vars

\* run: the TaskRequested query or a tasks(..) call fails and the `?` returns
\* the TaskHistoryFetchError; the membership set stays filled.
run_fetch_task_history_error ==
    /\ phase = "operators_fetched"
    /\ phase' = "failed"
    /\ UNCHANGED <<operator_list, tasks, operator_responses, rx_response,
                   rx_aggregated_response, rx_task_process, listener,
                   ingestion, consensus, finalization, ledger_txs,
                   submissions, forwarded, verdicts, finalized, task_result>>
    /\ UNCHANGED <<announced, operator_vars>>

\* Faulty variant: the listener, the stages and the server are started once
\* the membership set is filled, before the history is fetched.
run_spawn_Early ==
    /\ phase = "operators_fetched"
    /\ phase' = "serving"
    /\ listener' = "subscribing"
    /\ ingestion' = "running"
    /\ consensus' = "running"
    /\ finalization' = "running"
    /\ UNCHANGED <<operator_list, tasks, operator_responses, rx_response,
                   rx_aggregated_response, rx_task_process, ledger_txs,
                   submissions, forwarded, verdicts, finalized, task_result>>
    /\ UNCHANGED <<announced, operator_vars>>

\* run: the listener and the three stages are spawned and run_server begins
\* to serve.
run_spawn ==
    /\ phase = "history_fetched"
    /\ phase' = "serving"
    /\ listener' = "subscribing"
    /\ ingestion' = "running"
    /\ consensus' = "running"
    /\ finalization' = "running"
    /\ UNCHANGED <<operator_list, tasks, operator_responses, rx_response,
                   rx_aggregated_response, rx_task_process, ledger_txs,
                   submissions, forwarded, verdicts, finalized, task_result>>
    /\ UNCHANGED <<announced, operator_vars>>

StartupNext ==
    \/ run_fetch_operator_list
    \/ run_fetch_operator_list_error
    \/ run_fetch_task_history
    \/ run_fetch_task_history_error
    \/ run_spawn
    \/ \E task_id \in TaskIds : listen_for_task(task_id)
    \/ listen_for_task_subscribe
    \/ listen_for_task_end
    \/ \E operator_response \in OperatorResponse :
          handle_submit_task(operator_response)
    \/ \E task_id \in TaskIds : handle_task_status(task_id)
    \/ queue_operator_response
    \/ process_completed_tasks
    \/ process_completed_tasks_send
    \/ send_task_result
    \/ send_task_result_end

StartupSpec == Init /\ [][StartupNext]_vars

\* Nothing of the pipeline has been started: no listener, no stage, and the
\* server handles no request.
NothingStarted ==
    /\ listener = "stopped"
    /\ ingestion = "stopped"
    /\ consensus = "stopped"
    /\ finalization = "stopped"
    /\ submissions = 0
    /\ rx_response = <<>>
    /\ \A task_id \in TaskIds : ~ENABLED handle_task_status(task_id)
    /\ \A operator_response \in OperatorResponse :
          ~ENABLED handle_submit_task(operator_response)

\* C31: while run has not loaded both the membership set and the history,
\* and after a failed fetch, nothing is started and no request is handled;
\* the server starts only from the position reached by both fetches, and a
\* run that failed stays failed.
C31_StartupOrdered ==
    [][/\ phase # "serving" => NothingStarted
       /\ phase' # "serving" => NothingStarted'
       /\ (phase # "serving" /\ phase' = "serving")
              => phase = "history_fetched"
       /\ phase = "failed" => phase' = "failed"
      ]_vars

\* The history fetch failed after the membership set was filled: run has
\* returned the error.
C31_Witness ==
    /\ phase = "failed"
    /\ operator_list # {}

\* A step of handle_submit_task that puts a claim on the ingestion channel.
AdmissionStep ==
    /\ Len(rx_response') = Len(rx_response) + 1
    /\ submissions' = submissions + 1

\* The submission with the same result text and signature, for another task.
WithTaskId(operator_response, task_id) ==
    [operator_response EXCEPT !.task_id = task_id]

\* C32: when handle_submit_task admits a claim, the same (result, signature)
\* pair submitted with the id of any other PENDING task is admitted too, under
\* the same recovered address; and ingesting a claim stores it under that
\* address in the entry of the task id it carries.
C32_AdmissionIgnoresTaskSigned ==
    [][/\ AdmissionStep =>
           LET admitted == Last(rx_response')
           IN  \A task_id \in TaskIds :
                   StoredStatus(tasks, task_id) = PENDING
                   => /\ SubmitResponse(WithTaskId(admitted, task_id),
                                        operator_list, tasks, ingestion) = OK
                      /\ recover_address_from_msg(
                             WithTaskId(admitted, task_id).signature,
                             WithTaskId(admitted, task_id).result)
                           = recover_address_from_msg(admitted.signature,
                                                      admitted.result)
       /\ IngestionStep =>
           LET response == Head(rx_response)
               address == recover_address_from_msg(response.signature,
                                                   response.result)
           IN  /\ address \in operator_list
               /\ response.task_id \in DOMAIN operator_responses'
               /\ address \in DOMAIN operator_responses'[response.task_id]
               /\ operator_responses'[response.task_id][address] = response
      ]_vars

\* One (result, signature) pair of a member is stored as that member's claim
\* for two tasks.
C32_Witness ==
    \E t \in DOMAIN operator_responses, u \in DOMAIN operator_responses :
        /\ t # u
        /\ \E a \in operator_list :
              /\ a \in DOMAIN operator_responses[t]
              /\ a \in DOMAIN operator_responses[u]
              /\ operator_responses[t][a].result
                     = operator_responses[u][a].result
              /\ operator_responses[t][a].signature
                     = operator_responses[u][a].signature

\* C33: the recovery of queue_operator_response succeeds for every claim in
\* the ingestion channel, and the ingestion stage, once spawned, is running:
\* it has not returned through its signature error, and the server keeps the
\* sender of its channel.
C33_IngestionRecoveryNeverFails ==
    /\ \A i \in 1..Len(rx_response) :
          recover_address_from_msg(rx_response[i].signature,
                                   rx_response[i].result) # RecoverError
    /\ ingestion \in {"stopped", "running"}
    /\ phase = "serving" => ingestion = "running"

\* Every admitted claim has been ingested by the running stage, while a
\* submission with a malformed signature for the same task is answered 400.
C33_Witness ==
    /\ ingestion = "running"
    /\ submissions = MaxSubmissions
    /\ rx_response = <<>>
    /\ \E t \in DOMAIN operator_responses :
          /\ StoredStatus(tasks, t) = PENDING
          /\ \E operator_response \in OperatorResponse :
                /\ operator_response.task_id = t
                /\ operator_response.signature = MalformedSignature
                /\ SubmitResponse(operator_response, operator_list, tasks,
                                  ingestion) = BAD_REQUEST

\* The snapshots handed to the consensus stage: those waiting in its channel
\* and those it has received and decided.
SnapshotsHandedOver ==
    { rx_aggregated_response[i].responses :
          i \in 1..Len(rx_aggregated_response) }
    \cup { verdicts[i].responses : i \in 1..Len(verdicts) }

\* C34: the key set of every snapshot handed to the consensus stage is the
\* membership set, each key holds the claim recovered to it, and no snapshot
\* is empty.
C34_SnapshotKeysAreMembership ==
    \A responses \in SnapshotsHandedOver :
        /\ DOMAIN responses = operator_list
        /\ DOMAIN responses # {}
        /\ \A a \in DOMAIN responses :
              recover_address_from_msg(responses[a].signature,
                                       responses[a].result) = a

\* The snapshot of a task claimed by both members waits for the consensus
\* stage.
C34_Witness ==
    /\ Cardinality(operator_list) = 2
    /\ rx_aggregated_response # <<>>
    /\ DOMAIN Head(rx_aggregated_response).responses = operator_list

\* The task ids the pipeline holds anything for: a queued claim, an
\* accumulator entry, a forwarded snapshot, a verdict on its way, or a
\* finalization transaction.
TasksInPipeline ==
    { rx_response[i].task_id : i \in 1..Len(rx_response) }
    \cup DOMAIN operator_responses
    \cup { t \in TaskIds : forwarded[t] > 0 }
    \cup { rx_aggregated_response[i].task_id :
               i \in 1..Len(rx_aggregated_response) }
    \cup { verdicts[i].task_id : i \in 1..Len(verdicts) }
    \cup { task_result[i].task_id : i \in 1..Len(task_result) }
    \cup { rx_task_process[i].task_id : i \in 1..Len(rx_task_process) }
    \cup { ledger_txs[i].task_id : i \in 1..Len(ledger_txs) }

\* C35: every task the pipeline holds anything for is a key of the Task
\* Directory with a status other than EMPTY.
C35_PipelineTasksKnown ==
    \A t \in TasksInPipeline :
        /\ t \in DOMAIN tasks
        /\ tasks[t] # EMPTY

\* A finalization transaction was sent for a task that has an accumulator
\* entry, while the directory holds another id as EMPTY.
C35_Witness ==
    /\ ledger_txs # <<>>
    /\ ledger_txs[1].task_id \in DOMAIN operator_responses
    /\ \E t \in DOMAIN tasks : tasks[t] = EMPTY

\* The operator was found registered by the first isOperatorRegistered call
\* of register_operator_in_avs.
FoundRegistered ==
    /\ operator_run = "read"
    /\ Head(is_operator_registered)

\* C36: an operator found registered at startup leaves
\* register_operator_in_avs at once, with success and without a transaction;
\* the client-app status is read and the opt-in sent only after the
\* registration transaction of the same run.
C36_RegisteredOperatorSendsNothing ==
    [][/\ FoundRegistered =>
           /\ operator_run' \in {"read", "fetching"}
           /\ operator_txs' = <<>>
       /\ operator_run' \in {"app_check", "opting_in", "opted_in",
                             "client_app_failed"}
           => /\ operator_txs' # <<>>
              /\ Head(operator_txs') = "registerOperatorToAVS"
       /\ \A i \in 1..Len(operator_txs') :
              operator_txs'[i] = "optInClientAppId"
                  => /\ i = 2
                     /\ operator_txs'[1] = "registerOperatorToAVS"
      ]_vars

\* The operator was found registered, sent no transaction, and its two tasks
\* are running.
C36_Witness ==
    /\ operator_run = "running"
    /\ is_operator_registered = <<TRUE>>
    /\ operator_txs = <<>>
    /\ stream_count > 0

(***************************************************************************)
(* process_tasks call by call: one iteration of its loop from rx.recv() to *)
(* remove_container, beside the listener, in an operator that was found    *)
(* registered and has spawned its two tasks.                               *)
(***************************************************************************)
\* process_tasks: the `.unwrap()` of a failed call panics; the receiver and
\* the queue are dropped, the container stays as it is.
ProcessorPanics ==
    /\ task_processor' = "panicked"
    /\ rx' = <<>>
    /\ UNCHANGED <<processing, containers>>

\* Faulty variant: every received task is handled by a task of its own, so
\* the next one is received while a container is in use.
process_tasks_recv_Concurrent ==
    /\ operator_run = "running"
    /\ task_processor = "running"
    /\ rx # <<>>
    /\ dequeued' = Append(dequeued, Head(rx))
    /\ rx' = Tail(rx)
    /\ processing' = "received"
    /\ UNCHANGED <<operator_run, is_operator_registered, operator_txs,
                   event_listener, task_processor, stream_count, event,
                   containers>>
    /\ UNCHANGED run_image_vars
    /\ UNCHANGED aggregator_vars

\* process_tasks: rx.recv() yields the next task of the queue.
process_tasks_recv ==
    /\ operator_run = "running"
    /\ task_processor = "running"
    /\ processing = "idle"
    /\ rx # <<>>
    /\ dequeued' = Append(dequeued, Head(rx))
    /\ rx' = Tail(rx)
    /\ processing' = "received"
    /\ UNCHANGED <<operator_run, is_operator_registered, operator_txs,
                   event_listener, task_processor, stream_count, event,
                   containers>>
    /\ UNCHANGED run_image_vars
    /\ UNCHANGED aggregator_vars

\* process_tasks: getClientAppMetadata, the match of the docker URL and the
\* connection to Docker. A URL without a match ends the iteration.
process_tasks_metadata ==
    /\ operator_run = "running"
    /\ task_processor = "running"
    /\ processing = "received"
    /\ \E outcome \in {"matched", "no_image", "metadata_error",
                       "connect_error"} :
          IF outcome \in {"metadata_error", "connect_error"}
          THEN ProcessorPanics
          ELSE /\ processing' = IF outcome = "matched" THEN "connected"
                                ELSE "idle"
               /\ UNCHANGED <<task_processor, rx, containers>>
    /\ UNCHANGED <<operator_run, is_operator_registered, operator_txs,
                   event_listener, stream_count, event, dequeued>>
    /\ UNCHANGED run_image_vars
    /\ UNCHANGED aggregator_vars

\* process_tasks: create_container(name "test").
process_tasks_create ==
    /\ operator_run = "running"
    /\ task_processor = "running"
    /\ processing = "connected"
    /\ \/ /\ processing' = "created"
          /\ containers' = containers \cup {Last(dequeued)}
          /\ UNCHANGED <<task_processor, rx>>
       \/ ProcessorPanics
    /\ UNCHANGED <<operator_run, is_operator_registered, operator_txs,
                   event_listener, stream_count, event, dequeued>>
    /\ UNCHANGED run_image_vars
    /\ UNCHANGED aggregator_vars

\* process_tasks: start_container.
process_tasks_start ==
    /\ operator_run = "running"
    /\ task_processor = "running"
    /\ processing = "created"
    /\ \/ /\ processing' = "started"
          /\ UNCHANGED <<task_processor, rx, containers>>
       \/ ProcessorPanics
    /\ UNCHANGED <<operator_run, is_operator_registered, operator_txs,
                   event_listener, stream_count, event, dequeued>>
    /\ UNCHANGED run_image_vars
    /\ UNCHANGED aggregator_vars

\* process_tasks: the sleep and the loop over the logs, whose items are only
\* printed.
process_tasks_logs ==
    /\ operator_run = "running"
    /\ task_processor = "running"
    /\ processing = "started"
    /\ processing' = "logged"
    /\ UNCHANGED <<operator_run, is_operator_registered, operator_txs,
                   event_listener, task_processor, stream_count, event, rx,
                   dequeued, containers>>
    /\ UNCHANGED run_image_vars
    /\ UNCHANGED aggregator_vars

\* process_tasks: stop_container.
process_tasks_stop ==
    /\ operator_run = "running"
    /\ task_processor = "running"
    /\ processing = "logged"
    /\ \/ /\ processing' = "stopped"
          /\ UNCHANGED <<task_processor, rx, containers>>
       \/ ProcessorPanics
    /\ UNCHANGED <<operator_run, is_operator_registered, operator_txs,
                   event_listener, stream_count, event, dequeued>>
    /\ UNCHANGED run_image_vars
    /\ UNCHANGED aggregator_vars

\* process_tasks: remove_container, which ends the iteration.
process_tasks_remove ==
    /\ operator_run = "running"
    /\ task_processor = "running"
    /\ processing = "stopped"
    /\ \/ /\ processing' = "idle"
          /\ containers' = containers \ {Last(dequeued)}
          /\ UNCHANGED <<task_processor, rx>>
       \/ ProcessorPanics
    /\ UNCHANGED <<operator_run, is_operator_registered, operator_txs,
                   event_listener, stream_count, event, dequeued>>
    /\ UNCHANGED run_image_vars
    /\ UNCHANGED aggregator_vars

\* Operator::run has found the operator registered, fetched the client apps
\* and spawned the listener and the processor.
ContainerInit ==
    /\ phase = "new"
    /\ operator_list = {}
    /\ tasks = EmptyMap
    /\ operator_responses = EmptyMap
    /\ rx_response = <<>>
    /\ rx_aggregated_response = <<>>
    /\ rx_task_process = <<>>
    /\ task_result = <<>>
    /\ listener = "stopped"
    /\ ingestion = "stopped"
    /\ consensus = "stopped"
    /\ finalization = "stopped"
    /\ ledger_txs = <<>>
    /\ submissions = 0
    /\ forwarded = [t \in TaskIds |-> 0]
    /\ finalized = {}
    /\ verdicts = <<>>
    /\ announced = {}
    /\ operator_run = "running"
    /\ is_operator_registered = <<TRUE>>
    /\ operator_txs = <<>>
    /\ event_listener = "subscribing"
    /\ task_processor = "running"
    /\ stream_count = 0
    /\ event = <<>>
    /\ rx = <<>>
    /\ dequeued = <<>>
    /\ processing = "idle"
    /\ containers = {}
    /\ run_image = "idle"
    /\ docker_calls = <<>>
    /\ output = <<>>
    /\ test_container = FALSE

ContainerNext ==
    \/ listen_for_events_subscribe
    \/ listen_for_events_subscribe_error
    \/ listen_for_events
    \/ listen_for_events_error
    \/ listen_for_events_send
    \/ listen_for_events_end
    \/ process_tasks_recv
    \/ process_tasks_metadata
    \/ process_tasks_create
    \/ process_tasks_start
    \/ process_tasks_logs
    \/ process_tasks_stop
    \/ process_tasks_remove
    \/ process_tasks_end
    \/ handle_tasks

ContainerSpec == ContainerInit /\ [][ContainerNext]_vars

\* C37: the tasks are received in the order the listener enqueued them, one
\* per step; at most one container exists, and it is the container of the
\* task received last; a task is received only while no container exists and
\* the iteration before it has ended.
C37_OneTaskAtATimeInOrder ==
    [][vars' # vars =>
       /\ dequeued' = EventsUpTo(Len(dequeued'))
       /\ Cardinality(containers') <= 1
       /\ containers' # {} => containers' = {Last(dequeued')}
       /\ dequeued' # dequeued =>
             /\ Len(dequeued') = Len(dequeued) + 1
             /\ processing = "idle"
             /\ containers = {}
      ]_vars

\* The container of the second task exists: the first was handled to its
\* end, its container removed.
C37_Witness ==
    /\ Len(dequeued) = 2
    /\ containers = {2}
    /\ processing = "started"

(***************************************************************************)
(* DockerClient::run_image of docker_client.rs, call by call.              *)
(***************************************************************************)
\* The texts of the items the log stream yields.
LogTexts == { <<"4">>, <<"2">> }

\* One Docker call in the history, with whether it has failed.
DockerCall(name, ok) == [name |-> name, ok |-> ok]

\* The last call of the history is marked as failed.
LastCallFailed(calls) ==
    [calls EXCEPT ![Len(calls)] = DockerCall(@.name, FALSE)]

\* run_image: create_container with the name "test"; the `?` returns its
\* error.
run_image_create ==
    /\ run_image = "idle"
    /\ \E ok \in BOOLEAN :
          /\ docker_calls' =
                 Append(docker_calls, DockerCall("create_container", ok))
          /\ run_image' = IF ok THEN "created" ELSE "error"
          /\ test_container' = ok
    /\ UNCHANGED output
    /\ UNCHANGED <<operator_run, is_operator_registered, operator_txs,
                   event_listener, task_processor, stream_count, event, rx,
                   dequeued, processing, containers>>
    /\ UNCHANGED aggregator_vars

\* run_image: start_container; the `?` returns its error.
run_image_start ==
    /\ run_image = "created"
    /\ \E ok \in BOOLEAN :
          /\ docker_calls' =
                 Append(docker_calls, DockerCall("start_container", ok))
          /\ run_image' = IF ok THEN "started" ELSE "error"
    /\ UNCHANGED <<output, test_container>>
    /\ UNCHANGED <<operator_run, is_operator_registered, operator_txs,
                   event_listener, task_processor, stream_count, event, rx,
                   dequeued, processing, containers>>
    /\ UNCHANGED aggregator_vars

\* run_image: wait_container with the condition "not-running" gives the
\* stream.
run_image_wait ==
    /\ run_image = "started"
    /\ docker_calls' = Append(docker_calls, DockerCall("wait_container", TRUE))
    /\ run_image' = "waiting"
    /\ UNCHANGED <<output, test_container>>
    /\ UNCHANGED <<operator_run, is_operator_registered, operator_txs,
                   event_listener, task_processor, stream_count, event, rx,
                   dequeued, processing, containers>>
    /\ UNCHANGED aggregator_vars

\* run_image: one item of the wait stream. Ok without an error goes on, Ok
\* with an error and Err return an error, the end of the stream leaves the
\* loop.
run_image_wait_next ==
    /\ run_image = "waiting"
    /\ \E item \in {"ok", "ok_with_error", "err", "none"} :
          IF item \in {"ok_with_error", "err"}
          THEN /\ run_image' = "error"
               /\ docker_calls' = LastCallFailed(docker_calls)
          ELSE /\ run_image' = IF item = "none" THEN "waited" ELSE "waiting"
               /\ UNCHANGED docker_calls
    /\ UNCHANGED <<output, test_container>>
    /\ UNCHANGED <<operator_run, is_operator_registered, operator_txs,
                   event_listener, task_processor, stream_count, event, rx,
                   dequeued, processing, containers>>
    /\ UNCHANGED aggregator_vars

\* run_image: logs(stdout) gives the stream and output starts empty.
run_image_logs ==
    /\ run_image = "waited"
    /\ docker_calls' = Append(docker_calls, DockerCall("logs", TRUE))
    /\ output' = <<>>
    /\ run_image' = "logging"
    /\ UNCHANGED test_container
    /\ UNCHANGED <<operator_run, is_operator_registered, operator_txs,
                   event_listener, task_processor, stream_count, event, rx,
                   dequeued, processing, containers>>
    /\ UNCHANGED aggregator_vars

\* Faulty variant: an Err item of the log stream is skipped.
run_image_logs_next_SkipErrors ==
    /\ run_image = "logging"
    /\ \/ \E text \in LogTexts :
             /\ Len(output) < MaxLogs
             /\ output' = output \o text
             /\ UNCHANGED <<run_image, docker_calls>>
       \/ /\ docker_calls' = LastCallFailed(docker_calls)
          /\ UNCHANGED <<run_image, output>>
       \/ /\ run_image' = "logged"
          /\ UNCHANGED <<output, docker_calls>>
    /\ UNCHANGED test_container
    /\ UNCHANGED <<operator_run, is_operator_registered, operator_txs,
                   event_listener, task_processor, stream_count, event, rx,
                   dequeued, processing, containers>>
    /\ UNCHANGED aggregator_vars

\* run_image: one item of the log stream. Ok is appended to output, Err is
\* returned by the `?`, the end of the stream leaves the loop.
run_image_logs_next ==
    /\ run_image = "logging"
    /\ \/ \E text \in LogTexts :
             /\ Len(output) < MaxLogs
             /\ output' = output \o text
             /\ UNCHANGED <<run_image, docker_calls>>
       \/ /\ run_image' = "error"
          /\ docker_calls' = LastCallFailed(docker_calls)
          /\ UNCHANGED output
       \/ /\ run_image' = "logged"
          /\ UNCHANGED <<output, docker_calls>>
    /\ UNCHANGED test_container
    /\ UNCHANGED <<operator_run, is_operator_registered, operator_txs,
                   event_listener, task_processor, stream_count, event, rx,
                   dequeued, processing, containers>>
    /\ UNCHANGED aggregator_vars

\* run_image: remove_container, whose `?` returns its error, and Ok(output).
run_image_remove ==
    /\ run_image = "logged"
    /\ \E ok \in BOOLEAN :
          /\ docker_calls' =
                 Append(docker_calls, DockerCall("remove_container", ok))
          /\ run_image' = IF ok THEN "ok" ELSE "error"
          /\ test_container' = ~ok
    /\ UNCHANGED output
    /\ UNCHANGED <<operator_run, is_operator_registered, operator_txs,
                   event_listener, task_processor, stream_count, event, rx,
                   dequeued, processing, containers>>
    /\ UNCHANGED aggregator_vars

RunImageNext ==
    \/ run_image_create
    \/ run_image_start
    \/ run_image_wait
    \/ run_image_wait_next
    \/ run_image_logs
    \/ run_image_logs_next
    \/ run_image_remove

RunImageSpec == Init /\ [][RunImageNext]_vars

\* The steps of run_image in the order of its body.
RunImageSteps ==
    <<"create_container", "start_container", "wait_container", "logs",
      "remove_container">>

\* C38: the Docker calls of run_image are a prefix of create, start, wait,
\* logs, remove; a failed step is the last one performed and run_image has
\* returned an error, after which it performs nothing; Ok(output) is returned
\* only after all five steps, the removal included; and after an error that
\* follows the creation the container "test" is left in place.
C38_RunImageStepsInOrder ==
    [][/\ Len(docker_calls') <= Len(RunImageSteps)
       /\ \A i \in 1..Len(docker_calls') :
             /\ docker_calls'[i].name = RunImageSteps[i]
             /\ ~docker_calls'[i].ok
                   => /\ i = Len(docker_calls')
                      /\ run_image' = "error"
       /\ run_image = "error" => vars' = vars
       /\ run_image' = "ok"
             => /\ Len(docker_calls') = Len(RunImageSteps)
                /\ ~test_container'
       /\ run_image' = "error"
             => /\ ~docker_calls'[Len(docker_calls')].ok
                /\ test_container' = (Len(docker_calls') > 1)
      ]_vars

\* The log stream failed after two items were collected: run_image returned
\* the error, no removal was attempted and the container is left.
C38_Witness ==
    /\ run_image = "error"
    /\ Len(output) = 2
    /\ Len(docker_calls) = 4
    /\ test_container

====
